---- MODULE Spec2Model ----
(***************************************************************************)
(* Stations-Sprint, shared world edition: the coordinator of src/server.js *)
(* over the Redis helper layer of src/redis.js.                            *)
(*                                                                         *)
(* Every Redis command is one atomic step.  An async handler is a process  *)
(* whose program counter moves from one awaited command to the next, so    *)
(* handlers, expiry timers and spawn ticks interleave between any two      *)
(* commands, as they do on Node's event loop.  Time is abstract: a timer   *)
(* or a key's TTL may fire at any moment after it was set.                 *)
(*                                                                         *)
(* Temperatures are held in tenths of a degree (36.8 is 368).              *)
(***************************************************************************)
EXTENDS Integers, Sequences, FiniteSets

\* ------------------------------------------------------------------ bounds
NumPlayers == 2      \* sockets that may connect
NumRooms == 3        \* rooms of the ward modelled (PATIENTS lists 8)
MaxTasks == 5        \* task ids handed out in one run
MaxHandlers == 2     \* socket event handlers in progress at the same time
MaxRequests == 3     \* claimTask/resolveTask/releaseClaim events received in one run of Spec
SeqRequests == 3     \* the same, in one run of SpecSeq
MaxChains == 2       \* spawn timer chains alive at the same time

Players == 1..NumPlayers
Rooms == 1..NumRooms
TaskIds == 1..MaxTasks
Handlers == 1..MaxHandlers
Chains == 1..MaxChains

\* JS null where a socket id is expected (socket ids are 1..NumPlayers)
NoPlayer == 0
\* JS null where a display name is expected
NoName == ""
\* the name a socket registers under (after trim and substring)
NameOf(p) == IF p = 1 THEN "Anna" ELSE IF p = 2 THEN "Ben" ELSE "Cem"

Min(a, b) == IF a < b THEN a ELSE b
Max(a, b) == IF a > b THEN a ELSE b

\* ------------------------------------------------------------ static tables
ActionKeys == {"betablocker", "sauerstoff", "fiebermittel", "infusion", "schmerzmittel", "verband"}

SymptomKeys == {"tachycardia", "bradycardia", "hypoxia", "fever", "hypotension",
                "hypertension", "pain", "bleeding"}

\* SYMPTOMS[key].trigger(v)
Trigger(key, v) ==
  CASE key = "tachycardia"  -> v.hr > 100
    [] key = "bradycardia"  -> v.hr < 55
    [] key = "hypoxia"      -> v.o2 < 93
    [] key = "fever"        -> v.temp > 385
    [] key = "hypotension"  -> v.bp < 100
    [] key = "hypertension" -> v.bp > 160
    [] OTHER                -> TRUE

\* SYMPTOMS[key].correctAction
CorrectAction(key) ==
  CASE key = "tachycardia"  -> "betablocker"
    [] key = "bradycardia"  -> "infusion"
    [] key = "hypoxia"      -> "sauerstoff"
    [] key = "fever"        -> "fiebermittel"
    [] key = "hypotension"  -> "infusion"
    [] key = "hypertension" -> "betablocker"
    [] key = "pain"         -> "schmerzmittel"
    [] OTHER                -> "verband"

\* SYMPTOMS[key].recovery
Recovery(key) ==
  CASE key = "tachycardia"  -> [hr |-> -20, o2 |-> 1, temp |-> 0,   bp |-> 5]
    [] key = "bradycardia"  -> [hr |-> 15,  o2 |-> 1, temp |-> 0,   bp |-> 10]
    [] key = "hypoxia"      -> [hr |-> -3,  o2 |-> 6, temp |-> 0,   bp |-> 3]
    [] key = "fever"        -> [hr |-> -3,  o2 |-> 1, temp |-> -15, bp |-> 2]
    [] key = "hypotension"  -> [hr |-> -2,  o2 |-> 1, temp |-> 0,   bp |-> 25]
    [] key = "hypertension" -> [hr |-> -5,  o2 |-> 1, temp |-> 0,   bp |-> -30]
    [] key = "pain"         -> [hr |-> -3,  o2 |-> 1, temp |-> 0,   bp |-> 3]
    [] OTHER                -> [hr |-> -2,  o2 |-> 1, temp |-> 0,   bp |-> 5]

\* SYMPTOMS[key].priority
Priority(key) ==
  CASE key \in {"tachycardia", "bradycardia", "hypotension", "hypertension"} -> 3
    [] key = "hypoxia" -> 4
    [] key = "fever"   -> 2
    [] OTHER           -> 0

TRIGGERED_SYMPTOMS == {k \in SymptomKeys : Priority(k) > 0}
FALLBACK_SYMPTOMS == {k \in SymptomKeys : Priority(k) = 0}

UrgencyKeys == {"routine", "urgent", "critical"}

\* URGENCY: weight (%), ttl (s, already scaled by GAME_SPEED and rounded), scoring
URGENCY(u) ==
  CASE u = "routine" -> [weight |-> 60, ttl |-> 18, scoreCorrect |-> 10, scoreWrong |-> -3, teamPenalty |-> -3]
    [] u = "urgent"  -> [weight |-> 30, ttl |-> 12, scoreCorrect |-> 15, scoreWrong |-> -5, teamPenalty |-> -5]
    [] OTHER         -> [weight |-> 10, ttl |-> 8,  scoreCorrect |-> 25, scoreWrong |-> -8, teamPenalty |-> -10]

VITALS_DEGRADE == [hr |-> 4, o2 |-> -2, temp |-> 3, bp |-> -4]
VITALS_RECOVER == [hr |-> -3, o2 |-> 1, temp |-> -2, bp |-> 3]
\* the punitive delta of a wrong answer
VITALS_WRONG == [hr |-> 2, o2 |-> -1, temp |-> 1, bp |-> -2]
VITALS_LIMITS == [hrMin |-> 40, hrMax |-> 140, o2Min |-> 82, o2Max |-> 100,
                  tempMin |-> 350, tempMax |-> 410, bpMin |-> 70, bpMax |-> 190]
BASELINE_VITALS == [hr |-> 72, o2 |-> 98, temp |-> 368, bp |-> 125]
\* a vitals hash that does not exist (HGETALL gives {}: data.hr is undefined)
NoVitals == [hr |-> 0, o2 |-> 0, temp |-> 0, bp |-> 0]

\* a task that was not found (JS null where a task is expected)
NoTask == [id |-> 0, symptom |-> "", correctAction |-> "", urgency |-> "", room |-> 0,
           claimedBy |-> NoPlayer, claimedByName |-> NoName]

\* ------------------------------------------------------------------- state
VARIABLES
  tasks,           \* world:tasks, a Redis list of serialised tasks
  teamScore,       \* world:teamScore (an absent key reads as 0)
  vitals,          \* vitals:{room}, NoVitals when the hash does not exist
  players,         \* player:{socketId} hash: name (NoName when absent), score, streak
  active,          \* active:players, a Redis set of socket ids
  claims,          \* claim:{taskId}: the holder's socket id, NoPlayer when absent
  conn,            \* the sockets that are connected
  leaderboard,     \* the leaderboard table of SQLite: rows (name, score) in rowid order
  hs,              \* the socket event handlers in progress
  ex,              \* per task id: its expiry timer and handleTaskExpiry call
  sp,              \* the spawn timer chains
  spawnerTimeout,  \* the module-level timer handle: a chain, 0 for null
  nextId,          \* the next fresh task id (crypto.randomUUID)
  left,            \* what the run may still do: game events and registrations received, tasks spawned
  granted,         \* history: per task, who was answered OK by SET NX since the key was last absent
  rewards,         \* history: per task id, how often a correct-resolution reward was applied
  penalties,       \* history: per task id, how often the expiry penalty was applied
  inserted,        \* history: per score, how many rows insertScore has inserted with it
  pre              \* history: the store as it was when the handler or callback in progress began

store == <<tasks, teamScore, vitals, players, active, claims>>
procs == <<hs, ex, sp, spawnerTimeout>>
hist == <<granted, rewards, penalties, pre>>
ghost == <<granted, rewards, penalties>>
vars == <<tasks, teamScore, vitals, players, active, claims, conn, leaderboard, hs, ex, sp,
          spawnerTimeout, nextId, left, granted, rewards, penalties, inserted, pre>>

\* ------------------------------------------------------- Redis helper layer
\* the index (from 1) of the first list item whose id is taskId, 0 when none
FindIndex(list, taskId) ==
  IF \E i \in 1..Len(list) : list[i].id = taskId
  THEN CHOOSE i \in 1..Len(list) :
         /\ list[i].id = taskId
         /\ \A j \in 1..(i - 1) : list[j].id # taskId
  ELSE 0

\* getTask: tasks.find(t => t.id === taskId) || null
getTask(list, taskId) ==
  IF FindIndex(list, taskId) = 0 THEN NoTask ELSE list[FindIndex(list, taskId)]

\* LREM key 0 item: every occurrence of exactly this serialised value goes
LRem(list, item) == SelectSeq(list, LAMBDA x : x # item)

\* LSET key index value (the caller checks the index is in range)
LSet(list, i, value) == [list EXCEPT ![i] = value]

\* a patch that leaves claimedByName as it was
PatchedBySocketOnly(t, by, byName) == [t EXCEPT !.claimedBy = by]

\* { ...t, ...patch } of updateTask, the patch being the two claimant fields
Patched(t, by, byName) == [t EXCEPT !.claimedBy = by, !.claimedByName = byName]

\* SET without NX: the reply is OK whoever holds the key
SetAlwaysOk(held) == TRUE

\* SET claim:{taskId} socketId NX EX ttl: the reply is OK only when the key is absent
SetNxOk(held) == held = NoPlayer

\* getAllVitals()[room]: the stored hash, the baseline when it does not exist
getVitals(room) == IF vitals[room] = NoVitals THEN BASELINE_VITALS ELSE vitals[room]

\* getPlayer: null unless the hash has a name
getPlayer(p) == players[p].name # NoName

NoPlayerRec == [name |-> NoName, score |-> 0, streak |-> 0]

\* -------------------------------------------------------------- vitals engine
\* the upper bound alone
ClampAbove(lo, hi, x) == Min(hi, x)

\* Math.min(max, Math.max(min, x))
Clamp(lo, hi, x) == Min(hi, Max(lo, x))

\* the record adjustVitals writes: c + delta, each field clamped to its band
\* (Math.round leaves the integer fields as they are, and rounds the
\* temperature to one decimal, which is the tenth held here)
Clamped(c, delta) ==
  [hr   |-> Clamp(VITALS_LIMITS.hrMin,   VITALS_LIMITS.hrMax,   c.hr + delta.hr),
   o2   |-> Clamp(VITALS_LIMITS.o2Min,   VITALS_LIMITS.o2Max,   c.o2 + delta.o2),
   temp |-> Clamp(VITALS_LIMITS.tempMin, VITALS_LIMITS.tempMax, c.temp + delta.temp),
   bp   |-> Clamp(VITALS_LIMITS.bpMin,   VITALS_LIMITS.bpMax,   c.bp + delta.bp)]

\* --------------------------------------------------------------- generator
\* TRIGGERED_SYMPTOMS in the order the stable sort by priority (descending)
\* leaves the keys of SYMPTOMS in
ByPriority ==
  <<"hypoxia", "tachycardia", "bradycardia", "hypotension", "hypertension", "fever">>

\* the symptoms of ByPriority whose trigger holds for v
Triggered(v) == SelectSeq(ByPriority, LAMBDA k : Trigger(k, v))

RECURSIVE TotalWeight(_)
TotalWeight(list) ==
  IF list = <<>> THEN 0 ELSE Priority(Head(list)) + 1 + TotalWeight(Tail(list))

\* the loop of pickSymptom from index i on: roll -= weights[i], the symptom
\* at i is returned when roll <= 0, the last one when the loop runs out
RECURSIVE WeightedPick(_, _, _)
WeightedPick(list, i, roll) ==
  IF i = Len(list) \/ roll - (Priority(list[i]) + 1) <= 0 THEN list[i]
  ELSE WeightedPick(list, i + 1, roll - (Priority(list[i]) + 1))

\* every symptom drawn whatever the vitals are
pickSymptomAny(v) == SymptomKeys

\* pickSymptom, as the set of symptoms it returns over the rolls
\* Math.random() * total, taken at whole numbers; either fallback when no
\* trigger holds
pickSymptom(v) ==
  IF Len(Triggered(v)) > 0
  THEN {WeightedPick(Triggered(v), 1, roll) : roll \in 0..(TotalWeight(Triggered(v)) - 1)}
  ELSE FALLBACK_SYMPTOMS

\* the tiers taken in the opposite order
pickUrgencyRoutineFirst(roll) ==
  IF roll < URGENCY("routine").weight THEN "routine"
  ELSE IF roll < URGENCY("routine").weight + URGENCY("urgent").weight THEN "urgent"
  ELSE "critical"

\* pickUrgency on the roll Math.random() * 100, taken at whole numbers
pickUrgency(roll) ==
  IF roll < URGENCY("critical").weight THEN "critical"
  ELSE IF roll < URGENCY("critical").weight + URGENCY("urgent").weight THEN "urgent"
  ELSE "routine"

\* the rolls the model draws: one per tier
Rolls == {5, 25, 70}

\* every whole roll Math.floor(Math.random() * 100) can be
AllRolls == 0..99

\* the bonus without its cap
StreakBonusUncapped(newStreak) ==
  IF newStreak % 3 = 0 THEN 5 * (newStreak \div 3) ELSE 0

\* the streak bonus of a correct resolution: Math.min(20, 5 * (newStreak / 3))
\* when newStreak % 3 === 0, else 0
StreakBonus(newStreak) ==
  IF newStreak % 3 = 0 THEN Min(20, 5 * (newStreak \div 3)) ELSE 0

\* ------------------------------------------------------ socket event handlers
\* A handler in progress: its event (kind, p the socket, t the taskId, chosen
\* the chosenType), its position pc, its local variables, and out, what it
\* has emitted so far.
IdleHandler ==
  [kind |-> "idle", pc |-> "idle", p |-> NoPlayer, t |-> 0, chosen |-> "", name |-> NoName,
   i |-> 0, item |-> NoTask, raw |-> NoTask, correct |-> FALSE, newScore |-> 0, newStreak |-> 0,
   bonus |-> 0, v |-> NoVitals, first |-> FALSE, work |-> <<>>, k |-> 0, failed |-> FALSE,
   out |-> {}]


\* a handler is in progress until its promise settles (pc "done"); what it
\* did stays on record until a new handler takes its slot, the first free one
Settled(h) == hs[h].pc \in {"idle", "done"}

FreeSlot(h) ==
  /\ Settled(h)
  /\ \A g \in 1..(h - 1) : ~Settled(g)

\* the handler's promise settles: its locals are gone; its event, what it
\* emitted and what playerUpdate carried stay on record
Settle(rec, emitted) ==
  [IdleHandler EXCEPT !.kind = rec.kind, !.p = rec.p, !.t = rec.t, !.pc = "done",
                      !.chosen = rec.chosen, !.name = rec.name, !.correct = rec.correct, !.newScore = rec.newScore,
                      !.newStreak = rec.newStreak, !.bonus = rec.bonus,
                      !.out = rec.out \cup emitted]

Goto(h, label) == hs' = [hs EXCEPT ![h].pc = label]

\* the task ids a client can know: those handed out so far
KnownIds == 1..(nextId - 1)

\* the chosenType values a client sends: the remedies of the open tasks and
\* the two generic ones
ChosenTypes ==
  {"schmerzmittel", "verband"} \cup {tasks[i].correctAction : i \in 1..Len(tasks)}

\* socket.on('claimTask'): the event arrives and getPlayer is answered
ClaimBegin(h, p, t) ==
  /\ FreeSlot(h)
  /\ p \in conn
  /\ left.requests > 0
  /\ left' = [left EXCEPT !.requests = @ - 1]
  /\ hs' = [hs EXCEPT ![h] =
              [IdleHandler EXCEPT !.kind = "claimTask", !.p = p, !.t = t,
                                  !.name = players[p].name,
                                  !.pc = IF getPlayer(p) THEN "setnx" ELSE "done"]]
  /\ UNCHANGED <<store, ex, sp, spawnerTimeout, conn, leaderboard, inserted, nextId, ghost>>

\* r.claimTask: SET NX EX; on OK the handler goes on to updateTask
ClaimSetNx(h) ==
  /\ hs[h].kind = "claimTask" /\ hs[h].pc = "setnx"
  /\ IF SetNxOk(claims[hs[h].t])
     THEN /\ claims' = [claims EXCEPT ![hs[h].t] = hs[h].p]
          /\ granted' = [granted EXCEPT ![hs[h].t] = @ \cup {hs[h].p}]
          /\ Goto(h, "upd_read")
     ELSE /\ Goto(h, "getclaim")
          /\ UNCHANGED <<claims, granted>>
  /\ UNCHANGED <<tasks, teamScore, vitals, players, active, ex, sp, spawnerTimeout,
                 conn, leaderboard, inserted, nextId, left, rewards, penalties, pre>>

\* every refused caller is taken for the holder
AlreadyMineAlways(existing, p) == TRUE

\* no refused caller is taken for the holder
AlreadyMineNever(existing, p) == FALSE

\* the double-tap test: existing === socket.id
AlreadyMine(existing, p) == existing = p

\* the claim was refused: r.getClaim, silence if the caller holds it, else claimFailed
ClaimGetClaim(h) ==
  /\ hs[h].kind = "claimTask" /\ hs[h].pc = "getclaim"
  /\ hs' = [hs EXCEPT ![h] =
              Settle(hs[h], IF AlreadyMine(claims[hs[h].t], hs[h].p) THEN {} ELSE {"claimFailed"})]
  /\ UNCHANGED <<store, ex, sp, spawnerTimeout, conn, leaderboard, inserted, nextId, left, hist>>

\* where a handler goes after its updateTask: claimTask and releaseClaim
\* broadcast; a wrong resolveTask first emits playerUpdate
AfterUpdate(rec) ==
  [rec EXCEPT !.pc = "bcast",
              !.out = IF rec.kind = "resolveTask" THEN @ \cup {"playerUpdate"} ELSE @]

\* updateTask, LRANGE: find the task's index and build the patched value
UpdateRead(h) ==
  /\ hs[h].pc = "upd_read"
  /\ LET i == FindIndex(tasks, hs[h].t)
         by == IF hs[h].kind = "claimTask" THEN hs[h].p ELSE NoPlayer
         byName == IF hs[h].kind = "claimTask" THEN hs[h].name ELSE NoName
     IN  hs' = [hs EXCEPT ![h] =
                  IF i = 0 THEN AfterUpdate(hs[h])
                  ELSE [hs[h] EXCEPT !.pc = "upd_write", !.i = i,
                                     !.item = Patched(tasks[i], by, byName)]]
  /\ UNCHANGED <<store, ex, sp, spawnerTimeout, conn, leaderboard, inserted, nextId, left, hist>>

\* updateTask, LSET at the index found: Redis answers "ERR index out of range"
\* when the list has become shorter, and the handler's promise rejects
UpdateWrite(h) ==
  /\ hs[h].pc = "upd_write"
  /\ IF hs[h].i <= Len(tasks)
     THEN /\ tasks' = LSet(tasks, hs[h].i, hs[h].item)
          /\ hs' = [hs EXCEPT ![h] = AfterUpdate(hs[h])]
     ELSE /\ hs' = [hs EXCEPT ![h] = Settle(hs[h], {"error"})]
          /\ UNCHANGED tasks
  /\ UNCHANGED <<teamScore, vitals, players, active, claims, ex, sp, spawnerTimeout,
                 conn, leaderboard, inserted, nextId, left, hist>>

\* broadcastWorldUpdate: buildWorldState reads the store, io.emit('worldUpdate')
Broadcast(h) ==
  /\ hs[h].pc = "bcast"
  /\ hs' = [hs EXCEPT ![h] = Settle(hs[h], {"worldUpdate"})]
  /\ UNCHANGED <<store, ex, sp, spawnerTimeout, conn, leaderboard, inserted, nextId, left, hist>>

\* the check dropped: anybody may release
NotMineNever(existing, p) == FALSE

\* releaseClaim returns at once unless the caller holds the claim:
\* (await r.getClaim(taskId)) !== socket.id
NotMine(existing, p) == existing # p

\* socket.on('releaseClaim'): the event arrives and getClaim is answered
ReleaseBegin(h, p, t) ==
  /\ FreeSlot(h)
  /\ p \in conn
  /\ left.requests > 0
  /\ left' = [left EXCEPT !.requests = @ - 1]
  /\ hs' = [hs EXCEPT ![h] =
              [IdleHandler EXCEPT !.kind = "releaseClaim", !.p = p, !.t = t,
                                  !.pc = IF NotMine(claims[t], p) THEN "done" ELSE "release"]]
  /\ UNCHANGED <<store, ex, sp, spawnerTimeout, conn, leaderboard, inserted, nextId, ghost>>

\* r.releaseClaim: DEL claim:{taskId}, whoever holds it by now.  releaseClaim
\* and a wrong resolveTask go on to updateTask; a correct resolveTask emits
\* playerUpdate and broadcasts
ReleaseDel(h) ==
  /\ hs[h].pc = "release"
  /\ claims' = [claims EXCEPT ![hs[h].t] = NoPlayer]
  /\ granted' = [granted EXCEPT ![hs[h].t] = {}]
  /\ hs' = [hs EXCEPT ![h] =
              IF hs[h].kind = "resolveTask" /\ hs[h].correct
              THEN [hs[h] EXCEPT !.pc = "bcast", !.out = @ \cup {"playerUpdate"}]
              ELSE [hs[h] EXCEPT !.pc = "upd_read"]]
  /\ UNCHANGED <<tasks, teamScore, vitals, players, active, ex, sp, spawnerTimeout,
                 conn, leaderboard, inserted, nextId, left, rewards, penalties, pre>>

\* socket.on('resolveTask'): the event arrives and getPlayer is answered
ResolveBegin(h, p, t, chosen) ==
  /\ FreeSlot(h)
  /\ p \in conn
  /\ left.requests > 0
  /\ left' = [left EXCEPT !.requests = @ - 1]
  /\ hs' = [hs EXCEPT ![h] =
              IF getPlayer(p)
              THEN [IdleHandler EXCEPT !.kind = "resolveTask", !.p = p, !.t = t,
                                       !.chosen = chosen, !.pc = "holds"]
              ELSE [IdleHandler EXCEPT !.kind = "resolveTask", !.p = p, !.t = t,
                                       !.pc = "done"]]
  /\ UNCHANGED <<store, ex, sp, spawnerTimeout, conn, leaderboard, inserted, nextId, ghost>>

\* the check dropped: nobody is turned away
NotHolderNever(held, p) == FALSE

\* the caller must hold the claim: (await r.getClaim(taskId)) !== socket.id
NotHolder(held, p) == held # p

\* r.getClaim: resolveError unless the caller holds the claim
ResolveGetClaim(h) ==
  /\ hs[h].kind = "resolveTask" /\ hs[h].pc = "holds"
  /\ hs' = [hs EXCEPT ![h] =
              IF NotHolder(claims[hs[h].t], hs[h].p)
              THEN Settle(hs[h], {"resolveError"})
              ELSE [hs[h] EXCEPT !.pc = "gettask"]]
  /\ UNCHANGED <<store, ex, sp, spawnerTimeout, conn, leaderboard, inserted, nextId, left, hist>>

\* a task that is gone reported to the caller
GoneReplyError == {"resolveError"}

\* if (!task) return: nothing is emitted
GoneReply == {}

\* r.getTask: a task that is gone ends the handler silently; else the tier,
\* the verdict and the score delta are fixed here
ResolveGetTask(h) ==
  /\ hs[h].kind = "resolveTask" /\ hs[h].pc = "gettask"
  /\ LET task == getTask(tasks, hs[h].t)
     IN  hs' = [hs EXCEPT ![h] =
                  IF task = NoTask THEN Settle(hs[h], GoneReply)
                  ELSE [hs[h] EXCEPT !.pc = "incr", !.item = task,
                                     !.correct = (hs[h].chosen = task.correctAction)]]
  /\ UNCHANGED <<store, ex, sp, spawnerTimeout, conn, leaderboard, inserted, nextId, left, hist>>

\* delta = correct ? cfg.scoreCorrect : cfg.scoreWrong
ScoreDelta(urgency, correct) ==
  IF correct THEN URGENCY(urgency).scoreCorrect ELSE URGENCY(urgency).scoreWrong

\* r.incrPlayerScore(socket.id, delta): HINCRBY answers the new score
ResolveIncrScore(h) ==
  /\ hs[h].kind = "resolveTask" /\ hs[h].pc = "incr"
  /\ LET new == players[hs[h].p].score + ScoreDelta(hs[h].item.urgency, hs[h].correct)
     IN  /\ players' = [players EXCEPT ![hs[h].p].score = new]
         /\ hs' = [hs EXCEPT ![h].newScore = new,
                             ![h].pc = IF hs[h].correct THEN "streak" ELSE "setstreak"]
  /\ UNCHANGED <<tasks, teamScore, vitals, active, claims, ex, sp, spawnerTimeout,
                 conn, leaderboard, inserted, nextId, left, hist>>

\* correct: r.incrPlayerStreak, HINCRBY streak 1; the bonus is computed from its answer
ResolveIncrStreak(h) ==
  /\ hs[h].kind = "resolveTask" /\ hs[h].pc = "streak"
  /\ LET new == players[hs[h].p].streak + 1
     IN  /\ players' = [players EXCEPT ![hs[h].p].streak = new]
         /\ hs' = [hs EXCEPT ![h].newStreak = new,
                             ![h].bonus = StreakBonus(new),
                             ![h].pc = IF new % 3 = 0 THEN "bonus" ELSE "team"]
  /\ UNCHANGED <<tasks, teamScore, vitals, active, claims, ex, sp, spawnerTimeout,
                 conn, leaderboard, inserted, nextId, left, hist>>

\* correct, streak a multiple of 3: r.incrPlayerScore(socket.id, bonus)
ResolveIncrBonus(h) ==
  /\ hs[h].kind = "resolveTask" /\ hs[h].pc = "bonus"
  /\ players' = [players EXCEPT ![hs[h].p].score = @ + hs[h].bonus]
  /\ Goto(h, "team")
  /\ UNCHANGED <<tasks, teamScore, vitals, active, claims, ex, sp, spawnerTimeout,
                 conn, leaderboard, inserted, nextId, left, hist>>

\* wrong: r.setPlayerStreak(socket.id, 0)
ResolveSetStreak(h) ==
  /\ hs[h].kind = "resolveTask" /\ hs[h].pc = "setstreak"
  /\ players' = [players EXCEPT ![hs[h].p].streak = 0]
  /\ Goto(h, "team")
  /\ UNCHANGED <<tasks, teamScore, vitals, active, claims, ex, sp, spawnerTimeout,
                 conn, leaderboard, inserted, nextId, left, hist>>

\* the team counter left alone by a wrong answer
TeamDeltaCorrectOnly(urgency, correct, bonus) ==
  IF correct THEN URGENCY(urgency).scoreCorrect + bonus ELSE 0

\* what resolveTask adds to the team counter
TeamDelta(urgency, correct, bonus) ==
  IF correct THEN URGENCY(urgency).scoreCorrect + bonus ELSE URGENCY(urgency).scoreWrong

\* r.incrTeamScore(cfg.scoreCorrect + bonus) or r.incrTeamScore(cfg.scoreWrong)
ResolveIncrTeam(h) ==
  /\ hs[h].kind = "resolveTask" /\ hs[h].pc = "team"
  /\ teamScore' = teamScore + TeamDelta(hs[h].item.urgency, hs[h].correct, hs[h].bonus)
  /\ rewards' = IF hs[h].correct THEN [rewards EXCEPT ![hs[h].t] = @ + 1] ELSE rewards
  /\ Goto(h, "vget")
  /\ UNCHANGED <<tasks, vitals, players, active, claims, ex, sp, spawnerTimeout,
                 conn, leaderboard, inserted, nextId, left, granted, penalties, pre>>

\* adjustVitals, r.getAllVitals
ResolveVitalsRead(h) ==
  /\ hs[h].kind = "resolveTask" /\ hs[h].pc = "vget"
  /\ hs' = [hs EXCEPT ![h].v = getVitals(hs[h].item.room), ![h].pc = "vset"]
  /\ UNCHANGED <<store, ex, sp, spawnerTimeout, conn, leaderboard, inserted, nextId, left, hist>>

\* the generic recovery vector for every symptom
ResolveVitalsDeltaGeneric(task, correct) ==
  IF correct THEN VITALS_RECOVER ELSE VITALS_WRONG

\* the delta resolveTask passes to adjustVitals
ResolveVitalsDelta(task, correct) ==
  IF correct THEN Recovery(task.symptom) ELSE VITALS_WRONG

\* adjustVitals, r.setVitals; a correct answer goes on to removeTask, a wrong
\* one to releaseClaim
ResolveVitalsWrite(h) ==
  /\ hs[h].kind = "resolveTask" /\ hs[h].pc = "vset"
  /\ vitals' = [vitals EXCEPT ![hs[h].item.room] =
                  Clamped(hs[h].v, ResolveVitalsDelta(hs[h].item, hs[h].correct))]
  /\ Goto(h, IF hs[h].correct THEN "rm_read" ELSE "release")
  /\ UNCHANGED <<tasks, teamScore, players, active, claims, ex, sp, spawnerTimeout,
                 conn, leaderboard, inserted, nextId, left, hist>>

\* removeTask, LRANGE: the first item with this id, as serialised now
ResolveRemoveRead(h) ==
  /\ hs[h].kind = "resolveTask" /\ hs[h].pc = "rm_read"
  /\ hs' = [hs EXCEPT ![h].raw = getTask(tasks, hs[h].t),
                      ![h].pc = IF getTask(tasks, hs[h].t) = NoTask THEN "release" ELSE "rm_write"]
  /\ UNCHANGED <<store, ex, sp, spawnerTimeout, conn, leaderboard, inserted, nextId, left, hist>>

\* removeTask, LREM of the value read
ResolveRemoveWrite(h) ==
  /\ hs[h].kind = "resolveTask" /\ hs[h].pc = "rm_write"
  /\ tasks' = LRem(tasks, hs[h].raw)
  /\ Goto(h, "release")
  /\ UNCHANGED <<teamScore, vitals, players, active, claims, ex, sp, spawnerTimeout,
                 conn, leaderboard, inserted, nextId, left, hist>>

\* ------------------------------------------------------------- task expiry
\* ex[t]: the timer spawnTask set for task t (pending) and the call of
\* handleTaskExpiry(t, urgency, room) it makes; did is what the call has done
NoExpiry == [pc |-> "none", urgency |-> "", room |-> 0, raw |-> NoTask, v |-> NoVitals, did |-> {}]

\* handleTaskExpiry without "if (!task) return": the callback goes on whatever removeTask found
ExpiryFireNoReturn(t) ==
  /\ ex[t].pc = "pending"
  /\ ex' = [ex EXCEPT ![t].raw = getTask(tasks, t),
                      ![t].pc = IF getTask(tasks, t) = NoTask THEN "release" ELSE "lrem"]
  /\ UNCHANGED <<store, hs, sp, spawnerTimeout, conn, leaderboard, inserted, nextId, left, ghost>>

\* the timer fires; removeTask, LRANGE: a task that is gone ends the call
ExpiryFire(t) ==
  /\ ex[t].pc = "pending"
  /\ ex' = [ex EXCEPT ![t].raw = getTask(tasks, t),
                      ![t].pc = IF getTask(tasks, t) = NoTask THEN "done" ELSE "lrem"]
  /\ UNCHANGED <<store, hs, sp, spawnerTimeout, conn, leaderboard, inserted, nextId, left, ghost>>

\* removeTask, LREM of the value read
ExpiryRemove(t) ==
  /\ ex[t].pc = "lrem"
  /\ tasks' = LRem(tasks, ex[t].raw)
  /\ ex' = [ex EXCEPT ![t].pc = "release"]
  /\ UNCHANGED <<teamScore, vitals, players, active, claims, hs, sp, spawnerTimeout,
                 conn, leaderboard, inserted, nextId, left, hist>>

\* r.releaseClaim(taskId)
ExpiryRelease(t) ==
  /\ ex[t].pc = "release"
  /\ claims' = [claims EXCEPT ![t] = NoPlayer]
  /\ granted' = [granted EXCEPT ![t] = {}]
  /\ ex' = [ex EXCEPT ![t].pc = "team", ![t].did = @ \cup {"release"}]
  /\ UNCHANGED <<tasks, teamScore, vitals, players, active, hs, sp, spawnerTimeout,
                 conn, leaderboard, inserted, nextId, left, rewards, penalties, pre>>

\* r.incrTeamScore(URGENCY[urgencyKey].teamPenalty)
ExpiryPenalty(t) ==
  /\ ex[t].pc = "team"
  /\ teamScore' = teamScore + URGENCY(ex[t].urgency).teamPenalty
  /\ penalties' = [penalties EXCEPT ![t] = @ + 1]
  /\ ex' = [ex EXCEPT ![t].pc = "vget", ![t].did = @ \cup {"penalty"}]
  /\ UNCHANGED <<tasks, vitals, players, active, claims, hs, sp, spawnerTimeout,
                 conn, leaderboard, inserted, nextId, left, granted, rewards, pre>>

\* adjustVitals(roomNum, VITALS_DEGRADE), r.getAllVitals
ExpiryVitalsRead(t) ==
  /\ ex[t].pc = "vget"
  /\ ex' = [ex EXCEPT ![t].v = getVitals(ex[t].room), ![t].pc = "vset"]
  /\ UNCHANGED <<store, hs, sp, spawnerTimeout, conn, leaderboard, inserted, nextId, left, hist>>

\* adjustVitals(roomNum, VITALS_DEGRADE), r.setVitals
ExpiryVitalsWrite(t) ==
  /\ ex[t].pc = "vset"
  /\ vitals' = [vitals EXCEPT ![ex[t].room] = Clamped(ex[t].v, VITALS_DEGRADE)]
  /\ ex' = [ex EXCEPT ![t].pc = "bcast", ![t].did = @ \cup {"vitals"}]
  /\ UNCHANGED <<tasks, teamScore, players, active, claims, hs, sp, spawnerTimeout,
                 conn, leaderboard, inserted, nextId, left, hist>>

\* broadcastWorldUpdate
ExpiryBroadcast(t) ==
  /\ ex[t].pc = "bcast"
  /\ ex' = [ex EXCEPT ![t].pc = "done", ![t].v = NoVitals, ![t].did = @ \cup {"worldUpdate"}]
  /\ UNCHANGED <<store, hs, sp, spawnerTimeout, conn, leaderboard, inserted, nextId, left, hist>>

\* SET NX without EX: the key stays until somebody deletes it
ClaimNeverExpires(t) ==
  /\ FALSE
  /\ UNCHANGED <<tasks, teamScore, vitals, players, active, claims, procs, conn, leaderboard, inserted, nextId, left,
                 granted, rewards, penalties>>

\* the claim key's TTL (EX, Math.round(70 * GAME_SPEED) seconds) runs out
ClaimExpire(t) ==
  /\ claims[t] # NoPlayer
  /\ claims' = [claims EXCEPT ![t] = NoPlayer]
  /\ granted' = [granted EXCEPT ![t] = {}]
  /\ UNCHANGED <<tasks, teamScore, vitals, players, active, procs, conn, leaderboard, inserted, nextId, left,
                 rewards, penalties>>

\* ------------------------------------------------------------------ spawner
\* sp[c]: one chain of spawn timers.  "first" is startSpawner's timer pending,
\* "timer" is scheduleNextSpawn's; the other positions are inside a tick.  cnt
\* is what spawnTask keeps of its getTasks: the number of tasks per room; did
\* is what the chain's latest spawnTask call has done.
NoChain ==
  [pc |-> "off", cnt |-> [r \in Rooms |-> 0], room |-> 0, roll |-> 0, task |-> NoTask,
   v |-> NoVitals, did |-> {}]

RoomCounts(list) ==
  [r \in Rooms |-> Cardinality({i \in 1..Len(list) : list[i].room = r})]

RECURSIVE SumOver(_, _)
SumOver(f, S) ==
  IF S = {} THEN 0
  ELSE LET x == CHOOSE y \in S : TRUE IN f[x] + SumOver(f, S \ {x})

\* the ceiling one higher
MaxOpenTasksPlusOne(playerCount) == Max(4, playerCount * 2) + 1

\* Math.max(4, playerCount * 2)
MaxOpenTasks(playerCount) == Max(4, playerCount * 2)

\* every room, whatever it holds
EligibleAny(cnt) == Rooms

\* the rooms spawnTask may pick: tasks.filter(t => t.room === p.room).length < 2
Eligible(cnt) == {r \in Rooms : cnt[r] < 2}

\* spawnTask has returned (or thrown into the catch): scheduleNextSpawn()
Rearm(c, did) ==
  /\ sp' = [sp EXCEPT ![c] = [NoChain EXCEPT !.pc = "timer", !.did = did]]
  /\ spawnerTimeout' = c

\* startSpawner's timer fires: spawnTask begins, r.getTasks
SpawnFirst(c) ==
  /\ sp[c].pc = "first"
  /\ left.spawns > 0
  /\ sp' = [sp EXCEPT ![c].pc = "count", ![c].cnt = RoomCounts(tasks), ![c].did = {}]
  /\ UNCHANGED <<store, hs, ex, spawnerTimeout, conn, leaderboard, inserted, nextId, left, ghost>>

\* scheduleNextSpawn's timer fires: r.getActivePlayerCount, the chain ends
\* when nobody is left
SpawnTick(c) ==
  /\ sp[c].pc = "timer"
  /\ left.spawns > 0
  /\ IF Cardinality(active) = 0
     THEN /\ sp' = [sp EXCEPT ![c] = NoChain]
          /\ spawnerTimeout' = 0
     ELSE /\ sp' = [sp EXCEPT ![c].pc = "tasks", ![c].did = {}]
          /\ UNCHANGED spawnerTimeout
  /\ UNCHANGED <<store, hs, ex, conn, leaderboard, inserted, nextId, left, ghost>>

\* spawnTask, r.getTasks
SpawnGetTasks(c) ==
  /\ sp[c].pc = "tasks"
  /\ sp' = [sp EXCEPT ![c].pc = "count", ![c].cnt = RoomCounts(tasks)]
  /\ UNCHANGED <<store, hs, ex, spawnerTimeout, conn, leaderboard, inserted, nextId, left, hist>>

\* spawnTask, r.getActivePlayerCount: abort at the ceiling or when no room has
\* fewer than 2 tasks, else any such room may come first in the shuffle
SpawnCount(c) ==
  /\ sp[c].pc = "count"
  /\ IF SumOver(sp[c].cnt, Rooms) >= MaxOpenTasks(Cardinality(active)) \/ Eligible(sp[c].cnt) = {}
     THEN Rearm(c, sp[c].did)
     ELSE /\ \E room \in Eligible(sp[c].cnt) :
               sp' = [sp EXCEPT ![c].pc = "vitals", ![c].room = room]
          /\ UNCHANGED spawnerTimeout
  /\ UNCHANGED <<store, hs, ex, conn, leaderboard, inserted, nextId, left, hist>>

\* the task spawnTask builds
NewTask(id, symptomKey, urgencyKey, room) ==
  [id |-> id, symptom |-> symptomKey, correctAction |-> CorrectAction(symptomKey),
   urgency |-> urgencyKey, room |-> room, claimedBy |-> NoPlayer, claimedByName |-> NoName]

\* spawnTask, r.getAllVitals: the symptom, the tier (on a roll of the set
\* rolls) and the fresh id are drawn
SpawnVitalsOn(c, rolls) ==
  /\ sp[c].pc = "vitals"
  /\ left.spawns > 0 /\ nextId <= MaxTasks
  /\ \E symptomKey \in pickSymptom(getVitals(sp[c].room)), roll \in rolls :
       sp' = [sp EXCEPT ![c].pc = "add", ![c].roll = roll,
                        ![c].task = NewTask(nextId, symptomKey, pickUrgency(roll), sp[c].room)]
  /\ nextId' = nextId + 1
  /\ left' = [left EXCEPT !.spawns = @ - 1]
  /\ UNCHANGED <<store, conn, leaderboard, inserted, hs, ex, spawnerTimeout, hist>>

SpawnVitals(c) == SpawnVitalsOn(c, Rolls)

\* r.addTask: RPUSH
SpawnAdd(c) ==
  /\ sp[c].pc = "add"
  /\ tasks' = Append(tasks, sp[c].task)
  /\ sp' = [sp EXCEPT ![c].pc = "vget", ![c].did = @ \cup {"addTask"}]
  /\ UNCHANGED <<teamScore, vitals, players, active, claims, hs, ex, spawnerTimeout,
                 conn, leaderboard, inserted, nextId, left, hist>>

\* adjustVitals(patient.room, VITALS_DEGRADE), r.getAllVitals
SpawnVitalsRead(c) ==
  /\ sp[c].pc = "vget"
  /\ sp' = [sp EXCEPT ![c].v = getVitals(sp[c].room), ![c].pc = "vset"]
  /\ UNCHANGED <<store, hs, ex, spawnerTimeout, conn, leaderboard, inserted, nextId, left, hist>>

\* adjustVitals, r.setVitals; then setTimeout(handleTaskExpiry, ttlMs)
SpawnVitalsWrite(c) ==
  /\ sp[c].pc = "vset"
  /\ vitals' = [vitals EXCEPT ![sp[c].room] = Clamped(sp[c].v, VITALS_DEGRADE)]
  /\ ex' = [ex EXCEPT ![sp[c].task.id] =
              [NoExpiry EXCEPT !.pc = "pending", !.urgency = sp[c].task.urgency,
                               !.room = sp[c].room]]
  /\ sp' = [sp EXCEPT ![c].pc = "bcast", ![c].did = @ \cup {"setVitals", "setTimeout"}]
  /\ UNCHANGED <<tasks, teamScore, players, active, claims, hs, spawnerTimeout,
                 conn, leaderboard, inserted, nextId, left, hist>>

\* broadcastWorldUpdate; spawnTask returns and the tick re-arms the timer
SpawnBroadcast(c) ==
  /\ sp[c].pc = "bcast"
  /\ Rearm(c, sp[c].did \cup {"worldUpdate"})
  /\ UNCHANGED <<store, hs, ex, conn, leaderboard, inserted, nextId, left, hist>>

\* a Redis command of spawnTask is rejected (the connection is lost, a reply
\* is an error): spawnTask throws into the catch of the tick, which logs and
\* goes on to scheduleNextSpawn()
SpawnFails(c) ==
  /\ sp[c].pc \in {"tasks", "count", "vitals", "add", "vget", "vset", "bcast"}
  /\ Rearm(c, sp[c].did \cup {"error"})
  /\ UNCHANGED <<store, hs, ex, conn, leaderboard, inserted, nextId, left, hist>>

\* scheduleNextSpawn's timer fires and r.getActivePlayerCount is rejected: the
\* await is outside the try, the callback's promise rejects, and neither
\* scheduleNextSpawn() nor spawnerTimeout = null is reached
SpawnTickFails(c) ==
  /\ sp[c].pc = "timer"
  /\ sp' = [sp EXCEPT ![c] = [NoChain EXCEPT !.did = {"error"}]]
  /\ UNCHANGED <<store, hs, ex, spawnerTimeout, conn, leaderboard, inserted, nextId, left, hist>>

\* --------------------------------------------------- registration, disconnect
\* flushWorldState: one pipeline of DELs (tasks, team score, active set, vitals)
Flushed ==
  /\ tasks' = <<>>
  /\ teamScore' = 0
  /\ active' = {}
  /\ vitals' = [r \in Rooms |-> NoVitals]

\* startSpawner: nothing while a handle is stored, else a new chain's first timer
startSpawner ==
  IF spawnerTimeout # 0
  THEN UNCHANGED <<sp, spawnerTimeout>>
  ELSE \E c \in Chains :
         /\ sp[c].pc = "off"
         /\ \A d \in 1..(c - 1) : sp[d].pc # "off"
         /\ sp' = [sp EXCEPT ![c].pc = "first"]
         /\ spawnerTimeout' = c

\* stopSpawner: clearTimeout cancels the stored handle's timer if it is still
\* pending (a tick in progress is not stopped), and the handle is dropped
stopSpawner ==
  /\ sp' = IF spawnerTimeout # 0 /\ sp[spawnerTimeout].pc \in {"first", "timer"}
           THEN [sp EXCEPT ![spawnerTimeout] = NoChain]
           ELSE sp
  /\ spawnerTimeout' = 0

\* What a client sends as its name, as a sequence of pieces: a piece is a
\* blank or a word.
RawNames(p) == {<<NameOf(p)>>, <<" ", NameOf(p), " ">>, <<>>, <<" ", " ">>}

RECURSIVE TrimStart(_)
TrimStart(raw) ==
  IF raw # <<>> /\ Head(raw) = " " THEN TrimStart(Tail(raw)) ELSE raw

RECURSIVE TrimEnd(_)
TrimEnd(raw) ==
  IF raw # <<>> /\ raw[Len(raw)] = " " THEN TrimEnd(SubSeq(raw, 1, Len(raw) - 1)) ELSE raw

\* String(name).trim().substring(0, 32), as the string it gives (the names
\* sent have one word, of fewer than 32 characters)
Trimmed(raw) ==
  LET pieces == TrimEnd(TrimStart(raw))
  IN  IF pieces = <<>> THEN NoName ELSE pieces[1]

\* the test dropped: every name is taken
NameMissingNever(name) == FALSE

\* if (!name) return
NameMissing(name) == name = NoName

\* socket.on('registerPlayer'): a name that is empty after trim() ends the
\* handler at once; else r.getActivePlayerCount is answered
RegisterBegin(h, p, raw) ==
  /\ FreeSlot(h)
  /\ p \in conn
  /\ left.joins > 0
  /\ left' = [left EXCEPT !.joins = @ - 1]
  /\ hs' = [hs EXCEPT ![h] =
              IF NameMissing(Trimmed(raw))
              THEN [IdleHandler EXCEPT !.kind = "registerPlayer", !.p = p, !.pc = "done"]
              ELSE [IdleHandler EXCEPT !.kind = "registerPlayer", !.p = p,
                                       !.name = Trimmed(raw),
                                       !.first = (Cardinality(active) = 0),
                                       !.pc = "reg_set"]]
  /\ UNCHANGED <<store, conn, leaderboard, inserted, ex, sp, spawnerTimeout, nextId, ghost>>

\* r.setPlayer(socket.id, { name, score: 0, streak: 0 }), before and after the flush
RegisterSetPlayer(h) ==
  /\ hs[h].kind = "registerPlayer" /\ hs[h].pc \in {"reg_set", "reg_set2"}
  /\ players' = [players EXCEPT ![hs[h].p] = [name |-> hs[h].name, score |-> 0, streak |-> 0]]
  /\ Goto(h, IF hs[h].pc = "reg_set" THEN "reg_add" ELSE "reg_add2")
  /\ UNCHANGED <<tasks, teamScore, vitals, active, claims, conn, leaderboard, inserted, ex, sp, spawnerTimeout,
                 nextId, left, hist>>

\* r.addPlayerToSet(socket.id), before and after the flush
RegisterAdd(h) ==
  /\ hs[h].kind = "registerPlayer" /\ hs[h].pc \in {"reg_add", "reg_add2"}
  /\ active' = active \cup {hs[h].p}
  /\ Goto(h, IF hs[h].pc = "reg_add2" THEN "reg_init"
             ELSE IF hs[h].first THEN "reg_flush" ELSE "reg_build")
  /\ UNCHANGED <<tasks, teamScore, vitals, players, claims, conn, leaderboard, inserted, ex, sp, spawnerTimeout,
                 nextId, left, hist>>

\* isFirst: r.flushWorldState
RegisterFlush(h) ==
  /\ hs[h].kind = "registerPlayer" /\ hs[h].pc = "reg_flush"
  /\ Flushed
  /\ Goto(h, "reg_set2")
  /\ UNCHANGED <<players, claims, conn, leaderboard, inserted, ex, sp, spawnerTimeout, nextId, left, hist>>

\* isFirst: r.initVitals writes the baseline to every room; then startSpawner()
RegisterInitVitals(h) ==
  /\ hs[h].kind = "registerPlayer" /\ hs[h].pc = "reg_init"
  /\ vitals' = [r \in Rooms |-> BASELINE_VITALS]
  /\ startSpawner
  /\ Goto(h, "reg_build")
  /\ UNCHANGED <<tasks, teamScore, players, active, claims, conn, leaderboard, inserted, ex, nextId, left, hist>>

\* buildWorldState; worldUpdate and leaderboardUpdate go to the caller; whoever
\* was not first goes on to broadcastWorldUpdate
RegisterBuild(h) ==
  /\ hs[h].kind = "registerPlayer" /\ hs[h].pc = "reg_build"
  /\ hs' = [hs EXCEPT ![h] =
              IF hs[h].first
              THEN Settle(hs[h], {"worldUpdate to caller", "leaderboardUpdate"})
              ELSE [hs[h] EXCEPT !.pc = "bcast",
                                 !.out = @ \cup {"worldUpdate to caller", "leaderboardUpdate"}]]
  /\ UNCHANGED <<store, conn, leaderboard, inserted, ex, sp, spawnerTimeout, nextId, left, hist>>

\* ------------------------------------------------------------- leaderboard
\* the rows of lowest score
Lowest(rows) ==
  {j \in 1..Len(rows) : \A i \in 1..Len(rows) : rows[j].score <= rows[i].score}

\* DELETE FROM leaderboard WHERE id NOT IN (SELECT id FROM leaderboard ORDER
\* BY score DESC LIMIT 10): while more than 10 rows are left a row of lowest
\* score goes, SQLite being free to order rows of equal score either way; the
\* rows kept stay in rowid order.  The tables that may result.
RECURSIVE KeptRows(_)
KeptRows(rows) ==
  IF Len(rows) <= 10 THEN {rows}
  ELSE UNION {KeptRows(SubSeq(rows, 1, j - 1) \o SubSeq(rows, j + 1, Len(rows))) :
                j \in Lowest(rows)}

\* the INSERT alone: nothing is pruned
insertScoreNoPrune(rows, name, score) == {Append(rows, [name |-> name, score |-> score])}

\* insertScore: INSERT the row, then DELETE the rows that are not among the
\* top 10 by score
insertScore(rows, name, score) == KeptRows(Append(rows, [name |-> name, score |-> score]))

\* history: the scores inserted so far, highest first
RECURSIVE Sorted(_, _)
Sorted(scores, x) ==
  IF scores = <<>> THEN <<x>>
  ELSE IF x >= Head(scores) THEN <<x>> \o scores
  ELSE <<Head(scores)>> \o Sorted(Tail(scores), x)

\* the test of disconnect widened to a score of 0
WorthKeepingFromZero(score) == score >= 0

\* if (player.score > 0)
WorthKeeping(score) == score > 0

\* socket.on('disconnect'): the socket is gone; r.getPlayer is answered, and a
\* registered player with a score above 0 goes to the leaderboard (insertScore
\* is synchronous)
DisconnectBegin(h, p) ==
  /\ FreeSlot(h)
  /\ p \in conn
  /\ conn' = conn \ {p}
  /\ hs' = [hs EXCEPT ![h] =
              IF getPlayer(p)
              THEN [IdleHandler EXCEPT !.kind = "disconnect", !.p = p, !.pc = "dc_tasks",
                                       !.newScore = players[p].score,
                                       !.out = IF WorthKeeping(players[p].score)
                                               THEN {"leaderboardUpdate"} ELSE {}]
              ELSE [IdleHandler EXCEPT !.kind = "disconnect", !.p = p, !.pc = "done"]]
  /\ IF getPlayer(p) /\ WorthKeeping(players[p].score)
     THEN /\ leaderboard' \in insertScore(leaderboard, players[p].name, players[p].score)
          /\ inserted' = Sorted(inserted, players[p].score)
     ELSE UNCHANGED <<leaderboard, inserted>>
  /\ UNCHANGED <<store, ex, sp, spawnerTimeout, nextId, left, ghost>>

\* the entries of list whose claimedBy is p, in list order, as updateTask calls to make
ClaimedBy(list, p) ==
  LET mine == SelectSeq(list, LAMBDA x : x.claimedBy = p)
  IN  [n \in 1..Len(mine) |-> [t |-> mine[n].id, i |-> 0, item |-> NoTask]]

\* r.getTasks: the tasks that name the socket in claimedBy
DisconnectGetTasks(h) ==
  /\ hs[h].kind = "disconnect" /\ hs[h].pc = "dc_tasks"
  /\ LET work == ClaimedBy(tasks, hs[h].p)
     IN  hs' = [hs EXCEPT ![h].work = work,
                          ![h].pc = IF work = <<>> THEN "dc_delp" ELSE "dc_release"]
  /\ UNCHANGED <<store, conn, leaderboard, inserted, ex, sp, spawnerTimeout, nextId, left, hist>>

\* Promise.all issues r.releaseClaim for each of them in one turn: the DELs
\* reach Redis back to back
DisconnectRelease(h) ==
  /\ hs[h].kind = "disconnect" /\ hs[h].pc = "dc_release"
  /\ LET ts == {hs[h].work[n].t : n \in 1..Len(hs[h].work)}
     IN  /\ claims' = [t \in TaskIds |-> IF t \in ts THEN NoPlayer ELSE claims[t]]
         /\ granted' = [t \in TaskIds |-> IF t \in ts THEN {} ELSE granted[t]]
  /\ hs' = [hs EXCEPT ![h].pc = "dc_read", ![h].k = 1]
  /\ UNCHANGED <<tasks, teamScore, vitals, players, active, conn, leaderboard, inserted, ex, sp, spawnerTimeout,
                 nextId, left, rewards, penalties, pre>>

\* the k-th updateTask, LRANGE: the replies come in the order of the calls, so
\* every LRANGE is answered before the first LSET is sent
DisconnectUpdateRead(h) ==
  /\ hs[h].kind = "disconnect" /\ hs[h].pc = "dc_read"
  /\ LET k == hs[h].k
         i == FindIndex(tasks, hs[h].work[k].t)
         work == [hs[h].work EXCEPT ![k].i = i,
                                    ![k].item = IF i = 0 THEN NoTask
                                                ELSE Patched(tasks[i], NoPlayer, NoName)]
     IN  hs' = [hs EXCEPT ![h].work = work,
                          ![h].k = IF k < Len(work) THEN k + 1 ELSE 1,
                          ![h].pc = IF k < Len(work) THEN "dc_read" ELSE "dc_write"]
  /\ UNCHANGED <<store, conn, leaderboard, inserted, ex, sp, spawnerTimeout, nextId, left, hist>>

\* the k-th updateTask, LSET (none when its task was not found).  An LSET
\* that fails rejects Promise.all: the other LSETs are still made, and the
\* handler ends there, before deletePlayer
DisconnectUpdateWrite(h) ==
  /\ hs[h].kind = "disconnect" /\ hs[h].pc = "dc_write"
  /\ LET k == hs[h].k
         w == hs[h].work[k]
         fails == w.i > Len(tasks)
         failed == hs[h].failed \/ fails
     IN  /\ tasks' = IF w.i = 0 \/ fails THEN tasks ELSE LSet(tasks, w.i, w.item)
         /\ hs' = [hs EXCEPT ![h] =
                     IF k < Len(hs[h].work)
                     THEN [hs[h] EXCEPT !.k = k + 1, !.failed = failed]
                     ELSE IF failed THEN Settle(hs[h], {"error"})
                     ELSE [hs[h] EXCEPT !.pc = "dc_delp", !.work = <<>>, !.k = 0]]
  /\ UNCHANGED <<teamScore, vitals, players, active, claims, conn, leaderboard, inserted, ex, sp, spawnerTimeout,
                 nextId, left, hist>>

\* r.deletePlayer(socket.id)
DisconnectDeletePlayer(h) ==
  /\ hs[h].kind = "disconnect" /\ hs[h].pc = "dc_delp"
  /\ players' = [players EXCEPT ![hs[h].p] = NoPlayerRec]
  /\ Goto(h, "dc_srem")
  /\ UNCHANGED <<tasks, teamScore, vitals, active, claims, conn, leaderboard, inserted, ex, sp, spawnerTimeout,
                 nextId, left, hist>>

\* r.removePlayerFromSet(socket.id)
DisconnectSRem(h) ==
  /\ hs[h].kind = "disconnect" /\ hs[h].pc = "dc_srem"
  /\ active' = active \ {hs[h].p}
  /\ Goto(h, "dc_count")
  /\ UNCHANGED <<tasks, teamScore, vitals, players, claims, conn, leaderboard, inserted, ex, sp, spawnerTimeout,
                 nextId, left, hist>>

\* r.getActivePlayerCount: nobody left means stopSpawner() and then the
\* flush, else the world is broadcast
DisconnectCount(h) ==
  /\ hs[h].kind = "disconnect" /\ hs[h].pc = "dc_count"
  /\ IF Cardinality(active) = 0
     THEN /\ stopSpawner
          /\ Goto(h, "dc_flush")
     ELSE /\ Goto(h, "bcast")
          /\ UNCHANGED <<sp, spawnerTimeout>>
  /\ UNCHANGED <<store, conn, leaderboard, inserted, ex, nextId, left, hist>>

\* r.flushWorldState
DisconnectFlush(h) ==
  /\ hs[h].kind = "disconnect" /\ hs[h].pc = "dc_flush"
  /\ Flushed
  /\ hs' = [hs EXCEPT ![h] = Settle(hs[h], {})]
  /\ UNCHANGED <<players, claims, conn, leaderboard, inserted, ex, sp, spawnerTimeout, nextId, left, hist>>

\* ------------------------------------------------------------ specifications
\* the store as the handler or callback in progress (who, id) found it when it began
Snapshot(who, id) ==
  [who |-> who, id |-> id, tasks |-> tasks, teamScore |-> teamScore, vitals |-> vitals,
   players |-> players, active |-> active, claims |-> claims, ex |-> ex, sp |-> sp,
   spawnerTimeout |-> spawnerTimeout]

\* nothing is in progress: every handler has settled, every timer is pending
Quiet ==
  /\ \A h \in Handlers : Settled(h)
  /\ \A t \in TaskIds : ex[t].pc \in {"none", "pending", "done"}
  /\ \A c \in Chains : sp[c].pc \in {"off", "first", "timer"}

\* vitals after n degradations of the baseline (n spawns and expiries in the room)
Degraded(n) ==
  [hr   |-> Min(VITALS_LIMITS.hrMax,   BASELINE_VITALS.hr + n * VITALS_DEGRADE.hr),
   o2   |-> Max(VITALS_LIMITS.o2Min,   BASELINE_VITALS.o2 + n * VITALS_DEGRADE.o2),
   temp |-> Min(VITALS_LIMITS.tempMax, BASELINE_VITALS.temp + n * VITALS_DEGRADE.temp),
   bp   |-> Max(VITALS_LIMITS.bpMin,   BASELINE_VITALS.bp + n * VITALS_DEGRADE.bp)]

\* A game in progress.  Every socket is connected and those of registered
\* have registered, the first of them into an empty world (flushWorldState,
\* initVitals, startSpawner).  recs gives each player's score and streak,
\* earned on tasks of the rooms that are not modelled; in room 1, k routine
\* tasks were spawned and expired unattended (2k degradations, k team
\* penalties); the tasks of list were spawned since, one tick after the
\* other, and are open, their expiry timers pending; held gives the player
\* who has claimed a task since (NoPlayer for none).
GameInProgress(registered, recs, k, list, held, budget) ==
  /\ tasks = [i \in 1..Len(list) |->
                IF held[list[i].id] = NoPlayer THEN list[i]
                ELSE Patched(list[i], held[list[i].id], NameOf(held[list[i].id]))]
  /\ teamScore = SumOver([p \in Players |-> IF p \in registered THEN recs[p].score ELSE 0], Players)
                   + k * URGENCY("routine").teamPenalty
  /\ vitals = [r \in Rooms |->
                 Degraded((IF r = 1 THEN 2 * k ELSE 0) + RoomCounts(list)[r])]
  /\ players = [p \in Players |->
                  IF p \in registered
                  THEN [name |-> NameOf(p), score |-> recs[p].score, streak |-> recs[p].streak]
                  ELSE NoPlayerRec]
  /\ active = registered
  /\ claims = held
  /\ conn = Players
  /\ leaderboard = <<>>
  /\ inserted = <<>>
  /\ hs = [h \in Handlers |-> IdleHandler]
  /\ ex = [t \in TaskIds |->
             IF t <= Len(list)
             THEN [NoExpiry EXCEPT !.pc = "pending", !.urgency = list[t].urgency,
                                   !.room = list[t].room]
             ELSE NoExpiry]
  /\ sp = [c \in Chains |->
             IF c = 1 THEN [NoChain EXCEPT !.pc = IF list = <<>> THEN "first" ELSE "timer"]
             ELSE NoChain]
  /\ spawnerTimeout = 1
  /\ nextId = Len(list) + 1
  /\ left = budget
  /\ granted = [t \in TaskIds |-> IF held[t] = NoPlayer THEN {} ELSE {held[t]}]
  /\ rewards = [t \in TaskIds |-> 0]
  /\ penalties = [t \in TaskIds |-> 0]
  /\ pre = Snapshot("none", 0)

NewPlayer == [score |-> 0, streak |-> 0]

\* a player who has resolved two routine tasks correctly since registering
TwoCorrect == [score |-> 20, streak |-> 2]

\* no task is claimed
Unclaimed == [t \in TaskIds |-> NoPlayer]

\* one step of a socket event handler in progress
HandlerStep ==
  \E h \in Handlers :
    \/ ClaimSetNx(h)
    \/ ClaimGetClaim(h)
    \/ UpdateRead(h)
    \/ UpdateWrite(h)
    \/ Broadcast(h)
    \/ ReleaseDel(h)
    \/ ResolveGetClaim(h)
    \/ ResolveGetTask(h)
    \/ ResolveIncrScore(h)
    \/ ResolveIncrStreak(h)
    \/ ResolveIncrBonus(h)
    \/ ResolveSetStreak(h)
    \/ ResolveIncrTeam(h)
    \/ ResolveVitalsRead(h)
    \/ ResolveVitalsWrite(h)
    \/ ResolveRemoveRead(h)
    \/ ResolveRemoveWrite(h)

\* one step of a handleTaskExpiry call in progress
ExpiryStep ==
  \E t \in TaskIds :
    \/ ExpiryRemove(t)
    \/ ExpiryRelease(t)
    \/ ExpiryPenalty(t)
    \/ ExpiryVitalsRead(t)
    \/ ExpiryVitalsWrite(t)
    \/ ExpiryBroadcast(t)

\* one step of a spawn tick in progress
SpawnStep ==
  \E c \in Chains :
    \/ SpawnGetTasks(c)
    \/ SpawnCount(c)
    \/ SpawnVitals(c)
    \/ SpawnAdd(c)
    \/ SpawnVitalsRead(c)
    \/ SpawnVitalsWrite(c)
    \/ SpawnBroadcast(c)

\* a socket event arrives and handler h begins
RequestIn(h) ==
  \E p \in Players, t \in KnownIds :
    \/ ClaimBegin(h, p, t)
    \/ ReleaseBegin(h, p, t)
    \/ \E chosen \in ChosenTypes : ResolveBegin(h, p, t, chosen)

Request == \E h \in Handlers : RequestIn(h)

\* the task open when Spec begins
OpenTasks ==
  <<NewTask(1, "pain", "routine", 1)>>

\* the game between two spawn ticks: one task is open, and player 1 is one
\* correct resolution away from a streak bonus
Init == GameInProgress(Players, [p \in Players |-> IF p = 1 THEN TwoCorrect ELSE NewPlayer],
                       0, OpenTasks, Unclaimed,
                       [requests |-> MaxRequests, spawns |-> 0, joins |-> 0])

\* handlers and expiry callbacks interleave between any two Redis commands
Next ==
  \/ HandlerStep
  \/ ExpiryStep
  \/ Request /\ UNCHANGED pre
  \/ \E t \in TaskIds : ExpiryFire(t) /\ UNCHANGED pre
  \/ \E t \in TaskIds : ClaimExpire(t) /\ UNCHANGED pre

Spec == Init /\ [][Next]_vars

\* The games in progress the isolated runs start from.  Player 1 has 0, 2, 11
\* or 14 correct routine resolutions in a row behind them; k tasks expired in
\* room 1; two tasks are open, with symptoms their rooms' vitals allowed when
\* they were spawned.
SeqGames ==
  {[score |-> 0, streak |-> 0, k |-> 0,
    list |-> <<NewTask(1, "pain", "routine", 1), NewTask(2, "bleeding", "urgent", 2)>>],
   [score |-> 20, streak |-> 2, k |-> 4,
    list |-> <<NewTask(1, "hypoxia", "critical", 1), NewTask(2, "pain", "routine", 2)>>],
   [score |-> 140, streak |-> 11, k |-> 0,
    list |-> <<NewTask(1, "bleeding", "critical", 1), NewTask(2, "pain", "urgent", 1)>>],
   [score |-> 190, streak |-> 14, k |-> 4,
    list |-> <<NewTask(1, "fever", "urgent", 1), NewTask(2, "tachycardia", "routine", 1)>>]}

InitSeq ==
  \E g \in SeqGames :
    GameInProgress(Players,
                   [p \in Players |-> IF p = 1 THEN [score |-> g.score, streak |-> g.streak]
                                      ELSE NewPlayer],
                   g.k, g.list, Unclaimed, [requests |-> SeqRequests, spawns |-> 0, joins |-> 0])

\* every handler and callback runs to its end before the next begins
NextSeq ==
  \/ HandlerStep
  \/ ExpiryStep
  \/ \E h \in Handlers : Quiet /\ RequestIn(h) /\ pre' = Snapshot("handler", h)
  \/ \E t \in TaskIds : Quiet /\ ExpiryFire(t) /\ pre' = Snapshot("expiry", t)
  \/ \E t \in TaskIds : Quiet /\ ClaimExpire(t) /\ pre' = Snapshot("ttl", t)

SpecSeq == InitSeq /\ [][NextSeq]_vars

\* A busier moment of the same game: three tasks are open, two of them in
\* room 1, and the spawn timer is pending.
RaceTasks ==
  <<NewTask(1, "pain", "routine", 2), NewTask(2, "pain", "routine", 1),
    NewTask(3, "bleeding", "routine", 1)>>

RaceRequests == 2    \* claimTask events received in one run of SpecRace
RaceTarget == 3      \* the task they are for: the last of the list
RaceSpawns == 1      \* tasks spawned in one run of SpecRace
RaceExpiries == 1    \* expiry timers that fire in one run of SpecRace

\* the expiry timers that have fired
Fired == {t \in TaskIds : ex[t].pc \notin {"none", "pending"}}

InitRace == GameInProgress(Players, [p \in Players |-> NewPlayer], 0, RaceTasks, Unclaimed,
                           [requests |-> RaceRequests, spawns |-> RaceSpawns, joins |-> 0])

\* one step of a claimTask handler in progress
ClaimStep ==
  \E h \in Handlers :
    \/ ClaimSetNx(h)
    \/ ClaimGetClaim(h)
    \/ UpdateRead(h)
    \/ UpdateWrite(h)
    \/ Broadcast(h)

\* claimTask handlers, expiry callbacks and spawn ticks interleave
NextRace ==
  \/ ClaimStep
  \/ ExpiryStep
  \/ SpawnStep
  \/ \E h \in Handlers, p \in Players : ClaimBegin(h, p, RaceTarget) /\ UNCHANGED pre
  \/ \E t \in TaskIds : Cardinality(Fired) < RaceExpiries /\ ExpiryFire(t) /\ UNCHANGED pre
  \/ \E c \in Chains : SpawnTick(c) /\ UNCHANGED pre

SpecRace == InitRace /\ [][NextRace]_vars

\* The whole world, one handler or callback at a time: player 1 is in a game
\* in which room 1 has lost WorldExpired tasks and holds the claim on the one
\* task that is open; every other socket is connected and has not registered yet.
WorldRequests == 1   \* claimTask/resolveTask/releaseClaim events received in one run of SpecWorld
WorldSpawns == 1     \* tasks spawned in one run of SpecWorld
WorldJoins == 1      \* registerPlayer events received in one run of SpecWorld
WorldExpired == 4    \* tasks that expired in room 1 before the run

WorldTasks == <<NewTask(1, "hypoxia", "routine", 1)>>

InitWorld ==
  GameInProgress({1}, [p \in Players |-> TwoCorrect], WorldExpired,
                 WorldTasks, [t \in TaskIds |-> IF t = 1 THEN 1 ELSE NoPlayer],
                 [requests |-> WorldRequests, spawns |-> WorldSpawns, joins |-> WorldJoins])

\* one step of a registerPlayer or disconnect handler in progress
SessionStep ==
  \E h \in Handlers :
    \/ RegisterSetPlayer(h)
    \/ RegisterAdd(h)
    \/ RegisterFlush(h)
    \/ RegisterInitVitals(h)
    \/ RegisterBuild(h)
    \/ DisconnectGetTasks(h)
    \/ DisconnectRelease(h)
    \/ DisconnectUpdateRead(h)
    \/ DisconnectUpdateWrite(h)
    \/ DisconnectDeletePlayer(h)
    \/ DisconnectSRem(h)
    \/ DisconnectCount(h)
    \/ DisconnectFlush(h)

\* a socket registers (under its name, or under a blank one) or disconnects
SessionIn(h) ==
  \E p \in Players :
    \/ \E raw \in RawNames(p) : RegisterBegin(h, p, raw)
    \/ DisconnectBegin(h, p)

NextWorld ==
  \/ HandlerStep
  \/ SessionStep
  \/ ExpiryStep
  \/ SpawnStep
  \/ \E h \in Handlers : Quiet /\ RequestIn(h) /\ pre' = Snapshot("handler", h)
  \/ \E h \in Handlers : Quiet /\ SessionIn(h) /\ pre' = Snapshot("handler", h)
  \/ \E t \in TaskIds : Quiet /\ ExpiryFire(t) /\ pre' = Snapshot("expiry", t)
  \/ \E c \in Chains : Quiet /\ (SpawnFirst(c) \/ SpawnTick(c)) /\ pre' = Snapshot("spawn", c)
  \/ \E t \in TaskIds : Quiet /\ ClaimExpire(t) /\ pre' = Snapshot("ttl", t)

SpecWorld == InitWorld /\ [][NextWorld]_vars

\* The isolated runs of a game with one open task, with what Node and Redis
\* guarantee: a handler or callback in progress takes its next step when the
\* reply it awaits arrives, and a claim key set with EX is deleted by Redis
\* when its time is up.
LiveRequests == 2    \* claimTask/resolveTask/releaseClaim events received in one run of SpecLive

InitLive == GameInProgress(Players, [p \in Players |-> IF p = 1 THEN TwoCorrect ELSE NewPlayer],
                           0, OpenTasks, Unclaimed,
                           [requests |-> LiveRequests, spawns |-> 0, joins |-> 0])

\* nothing in progress stalls, and no claim key outlives its window
Fairness ==
  /\ WF_vars(HandlerStep)
  /\ WF_vars(ExpiryStep)
  /\ \A t \in TaskIds : WF_vars(Quiet /\ ClaimExpire(t) /\ pre' = Snapshot("ttl", t))

SpecLive == InitLive /\ [][NextSeq]_vars /\ Fairness

\* The generator at the ceiling, one callback at a time: both players are in
\* the game, rooms 1 and 2 have two open tasks each, room 3 has none, and the
\* spawn timer is pending.
GenSpawns == 2       \* tasks spawned in one run of SpecGen

GenTasks ==
  <<NewTask(1, "pain", "routine", 1), NewTask(2, "bleeding", "routine", 1),
    NewTask(3, "pain", "urgent", 2), NewTask(4, "bleeding", "critical", 2)>>

InitGen == GameInProgress(Players, [p \in Players |-> NewPlayer], 0, GenTasks, Unclaimed,
                          [requests |-> 0, spawns |-> GenSpawns, joins |-> 0])

NextGen ==
  \/ SpawnStep
  \/ ExpiryStep
  \/ \E c \in Chains : Quiet /\ SpawnTick(c) /\ pre' = Snapshot("spawn", c)
  \/ \E t \in TaskIds : Quiet /\ ExpiryFire(t) /\ pre' = Snapshot("expiry", t)

SpecGen == InitGen /\ [][NextGen]_vars

\* The last player leaves: player 1 is alone in a game, holding the claim on
\* the one open task, the spawn timer is pending, and player 2 is connected
\* but has not registered.  Registrations, disconnects and spawn ticks
\* interleave between any two Redis commands; no expiry timer fires meanwhile.
StopSpawns == 1      \* tasks spawned in one run of SpecStop
StopJoins == 1       \* registerPlayer events received in one run of SpecStop

InitStop ==
  GameInProgress({1}, [p \in Players |-> NewPlayer], 0, OpenTasks,
                 [t \in TaskIds |-> IF t = 1 THEN 1 ELSE NoPlayer],
                 [requests |-> 0, spawns |-> StopSpawns, joins |-> StopJoins])

NextStop ==
  \/ SessionStep
  \/ \E h \in Handlers : Broadcast(h)
  \/ SpawnStep
  \/ \E h \in Handlers : SessionIn(h) /\ UNCHANGED pre
  \/ \E c \in Chains : (SpawnFirst(c) \/ SpawnTick(c)) /\ UNCHANGED pre

SpecStop == InitStop /\ [][NextStop]_vars

\* The server has just started: nobody has registered, the store is empty, no
\* timer is set; every socket is connected and has been sent requestName.
\* Registrations and disconnects interleave between any two Redis commands;
\* they are over before the 3-second grace timer of startSpawner fires.
JoinJoins == 2       \* registerPlayer events received in one run of SpecJoin

ServerStarted(budget) ==
  /\ tasks = <<>>
  /\ teamScore = 0
  /\ vitals = [r \in Rooms |-> NoVitals]
  /\ players = [p \in Players |-> NoPlayerRec]
  /\ active = {}
  /\ claims = Unclaimed
  /\ conn = Players
  /\ leaderboard = <<>>
  /\ inserted = <<>>
  /\ hs = [h \in Handlers |-> IdleHandler]
  /\ ex = [t \in TaskIds |-> NoExpiry]
  /\ sp = [c \in Chains |-> NoChain]
  /\ spawnerTimeout = 0
  /\ nextId = 1
  /\ left = budget
  /\ granted = [t \in TaskIds |-> {}]
  /\ rewards = [t \in TaskIds |-> 0]
  /\ penalties = [t \in TaskIds |-> 0]
  /\ pre = Snapshot("none", 0)

InitServer == ServerStarted([requests |-> 0, spawns |-> 0, joins |-> JoinJoins])

\* one step of a registerPlayer handler, or of the disconnect handler of a
\* socket that holds no claim
JoinStep ==
  \E h \in Handlers :
    \/ RegisterSetPlayer(h)
    \/ RegisterAdd(h)
    \/ RegisterFlush(h)
    \/ RegisterInitVitals(h)
    \/ RegisterBuild(h)
    \/ Broadcast(h)
    \/ DisconnectGetTasks(h)
    \/ DisconnectDeletePlayer(h)
    \/ DisconnectSRem(h)
    \/ DisconnectCount(h)
    \/ DisconnectFlush(h)

NextJoin ==
  \/ JoinStep
  \/ \E h \in Handlers : SessionIn(h) /\ UNCHANGED pre

SpecJoin == InitServer /\ [][NextJoin]_vars

\* The generator over a store that may fail: both players are in the game,
\* one task is open, the spawn timer is pending, and any Redis command of a
\* tick may be rejected.
FailSpawns == 2      \* tasks spawned in one run of SpecFail

InitFail == GameInProgress(Players, [p \in Players |-> NewPlayer], 0, OpenTasks, Unclaimed,
                           [requests |-> 0, spawns |-> FailSpawns, joins |-> 0])

NextFail ==
  \/ SpawnStep /\ UNCHANGED pre
  \/ \E c \in Chains : SpawnTick(c) /\ UNCHANGED pre
  \/ \E c \in Chains : SpawnFails(c)
  \/ \E c \in Chains : SpawnTickFails(c) /\ UNCHANGED pre

SpecFail == InitFail /\ [][NextFail]_vars

\* From the start of the server through a first game: registrations and
\* disconnects interleave with each other between any two Redis commands; a
\* spawn tick or an expiry callback runs from its timer to its end while no
\* handler is in progress.
ResetJoins == 2      \* registerPlayer events received in one run of SpecReset
ResetSpawns == 1     \* tasks spawned in one run of SpecReset

InitReset == ServerStarted([requests |-> 0, spawns |-> ResetSpawns, joins |-> ResetJoins])

\* no spawn tick and no expiry callback is in progress
TimersQuiet ==
  /\ \A t \in TaskIds : ex[t].pc \in {"none", "pending", "done"}
  /\ \A c \in Chains : sp[c].pc \in {"off", "first", "timer"}

\* one step of the spawnTask call made by startSpawner's timer
FirstSpawnStep ==
  \E c \in Chains :
    \/ SpawnCount(c)
    \/ SpawnVitals(c)
    \/ SpawnAdd(c)
    \/ SpawnVitalsRead(c)
    \/ SpawnVitalsWrite(c)
    \/ SpawnBroadcast(c)

NextReset ==
  \/ JoinStep
  \/ FirstSpawnStep
  \/ ExpiryStep
  \/ \E h \in Handlers : TimersQuiet /\ SessionIn(h) /\ UNCHANGED pre
  \/ \E c \in Chains : Quiet /\ SpawnFirst(c) /\ UNCHANGED pre
  \/ \E t \in TaskIds : Quiet /\ ExpiryFire(t) /\ UNCHANGED pre

SpecReset == InitReset /\ [][NextReset]_vars

\* Participants leave a game in progress: two tasks are open, player 2 has
\* 20 points and holds the claim on the second task, player 1 has none.
\* Disconnect handlers and expiry callbacks interleave between any two Redis
\* commands.
LeaveTasks ==
  <<NewTask(1, "pain", "routine", 1), NewTask(2, "bleeding", "urgent", 2)>>

InitLeave ==
  GameInProgress(Players, [p \in Players |-> IF p = 2 THEN TwoCorrect ELSE NewPlayer], 0,
                 LeaveTasks, [t \in TaskIds |-> IF t = 2 THEN 2 ELSE NoPlayer],
                 [requests |-> 0, spawns |-> 0, joins |-> 0])

\* one step of a disconnect handler in progress
DisconnectStep ==
  \E h \in Handlers :
    \/ DisconnectGetTasks(h)
    \/ DisconnectRelease(h)
    \/ DisconnectUpdateRead(h)
    \/ DisconnectUpdateWrite(h)
    \/ DisconnectDeletePlayer(h)
    \/ DisconnectSRem(h)
    \/ DisconnectCount(h)
    \/ DisconnectFlush(h)
    \/ Broadcast(h)

NextLeave ==
  \/ DisconnectStep
  \/ ExpiryStep
  \/ \E h \in Handlers, p \in Players : DisconnectBegin(h, p) /\ UNCHANGED pre
  \/ \E t \in TaskIds : ExpiryFire(t) /\ UNCHANGED pre

SpecLeave == InitLeave /\ [][NextLeave]_vars

\* The leaderboard by itself: insertScore is called with one score after the
\* other, as the disconnects of participants who scored call it.
MaxInserts == 12     \* insertScore calls in one run of SpecBoard
BoardScores == {10, 20, 30}

InitBoard == ServerStarted([requests |-> 0, spawns |-> 0, joins |-> 0])

InsertScore(name, score) ==
  /\ Len(inserted) < MaxInserts
  /\ leaderboard' \in insertScore(leaderboard, name, score)
  /\ inserted' = Sorted(inserted, score)
  /\ UNCHANGED <<store, procs, conn, nextId, left, ghost, pre>>

NextBoard == \E score \in BoardScores : InsertScore(NameOf(1), score)

SpecBoard == InitBoard /\ [][NextBoard]_vars

\* The two draws of spawnTask over their inputs: the timer has fired, the
\* room is chosen, and the room's vitals are any record of PickVitals or are
\* not stored; the roll of the tier is any whole number of 0..99.
PickSpawns == 1      \* tasks spawned in one run of SpecPick

PickVitals ==
  [hr : {50, 55, 100, 101}, o2 : {92, 93}, temp : {385, 386}, bp : {99, 100, 160, 161}]

InitPick ==
  \E room \in Rooms, v \in PickVitals \cup {NoVitals} :
    /\ tasks = <<>>
    /\ teamScore = 0
    /\ vitals = [r \in Rooms |-> IF r = room THEN v ELSE NoVitals]
    /\ players = [p \in Players |-> [name |-> NameOf(p), score |-> 0, streak |-> 0]]
    /\ active = Players
    /\ claims = Unclaimed
    /\ conn = Players
    /\ leaderboard = <<>>
    /\ inserted = <<>>
    /\ hs = [h \in Handlers |-> IdleHandler]
    /\ ex = [t \in TaskIds |-> NoExpiry]
    /\ sp = [c \in Chains |->
               IF c = 1 THEN [NoChain EXCEPT !.pc = "vitals", !.room = room] ELSE NoChain]
    /\ spawnerTimeout = 1
    /\ nextId = 1
    /\ left = [requests |-> 0, spawns |-> PickSpawns, joins |-> 0]
    /\ granted = [t \in TaskIds |-> {}]
    /\ rewards = [t \in TaskIds |-> 0]
    /\ penalties = [t \in TaskIds |-> 0]
    /\ pre = Snapshot("none", 0)

NextPick == \E c \in Chains : SpawnVitalsOn(c, AllRolls) \/ SpawnAdd(c)

SpecPick == InitPick /\ [][NextPick]_vars

\* Leaving in the middle of a claim: both players are in the game and one
\* task is open and unclaimed.  claimTask handlers and disconnect handlers
\* interleave between any two Redis commands.
QuitRequests == 2    \* claimTask events received in one run of SpecQuit

InitQuit ==
  GameInProgress(Players, [p \in Players |-> NewPlayer], 0, OpenTasks, Unclaimed,
                 [requests |-> QuitRequests, spawns |-> 0, joins |-> 0])

NextQuit ==
  \/ \E h \in Handlers : ClaimSetNx(h) \/ ClaimGetClaim(h) \/ UpdateRead(h) \/ UpdateWrite(h)
  \/ DisconnectStep
  \/ \E h \in Handlers, p \in Players, t \in KnownIds : ClaimBegin(h, p, t) /\ UNCHANGED pre
  \/ \E h \in Handlers, p \in Players : DisconnectBegin(h, p) /\ UNCHANGED pre

SpecQuit == InitQuit /\ [][NextQuit]_vars

\* -------------------------------------------- what the claims speak of
\* handler h is a resolveTask by a registered participant that ran from the
\* store held in pre, by itself, and has ended
Resolved(h) ==
  /\ hs[h].kind = "resolveTask" /\ hs[h].pc = "done"
  /\ pre.who = "handler" /\ pre.id = h
  /\ pre.players[hs[h].p].name # NoName

\* the store is as the handler or callback found it
StoreAsBefore ==
  /\ tasks = pre.tasks /\ teamScore = pre.teamScore /\ vitals = pre.vitals
  /\ players = pre.players /\ active = pre.active /\ claims = pre.claims

\* the claim holder resolved a task that was open, with this verdict
ResolvedByHolder(h, correct) ==
  /\ Resolved(h)
  /\ pre.claims[hs[h].t] = hs[h].p
  /\ getTask(pre.tasks, hs[h].t) # NoTask
  /\ (hs[h].chosen = getTask(pre.tasks, hs[h].t).correctAction) = correct

\* handler h is a claimTask by a registered participant that ran from the
\* store held in pre, by itself, and has ended
Claimed(h) ==
  /\ hs[h].kind = "claimTask" /\ hs[h].pc = "done"
  /\ pre.who = "handler" /\ pre.id = h
  /\ pre.players[hs[h].p].name # NoName

\* handler h is a releaseClaim that ran from the store held in pre, by
\* itself, and has ended
Released(h) ==
  /\ hs[h].kind = "releaseClaim" /\ hs[h].pc = "done"
  /\ pre.who = "handler" /\ pre.id = h

\* x held to the band lo..hi
Band(lo, hi, x) == IF x < lo THEN lo ELSE IF x > hi THEN hi ELSE x

\* v + d, each field held to its band: hr 40..140, o2 82..100, temp 35.0..41.0, bp 70..190
Banded(v, d) ==
  [hr   |-> Band(40, 140, v.hr + d.hr),
   o2   |-> Band(82, 100, v.o2 + d.o2),
   temp |-> Band(350, 410, v.temp + d.temp),
   bp   |-> Band(70, 190, v.bp + d.bp)]

InBand(v) ==
  /\ 40 <= v.hr /\ v.hr <= 140
  /\ 82 <= v.o2 /\ v.o2 <= 100
  /\ 350 <= v.temp /\ v.temp <= 410
  /\ 70 <= v.bp /\ v.bp <= 190

\* what a reader of room r's vitals got when the handler or callback in progress began
Before(r) == IF pre.vitals[r] = NoVitals THEN BASELINE_VITALS ELSE pre.vitals[r]

\* ---------------------------------------------------------------- claim C1
\* C1: at most one player holds the claim on a task at any time.  Of the
\* players answered by SET NX since the claim key was last absent exactly one
\* was granted, and that player is the holder on record; a claimTask handler
\* ends granted (it broadcasts, or its LSET fails), refused with claimFailed,
\* or refused in silence, and never both granted and refused.
C1_ClaimExclusive ==
  /\ \A t \in TaskIds :
       /\ Cardinality(granted[t]) <= 1
       /\ granted[t] # {} => granted[t] = {claims[t]}
       /\ claims[t] # NoPlayer => granted[t] = {claims[t]}
  /\ \A h \in Handlers :
       (hs[h].kind = "claimTask" /\ hs[h].pc = "done")
         => hs[h].out \in {{"worldUpdate"}, {"error"}, {"claimFailed"}, {}}

\* two players claimed the same task: one was granted and holds it, the other got claimFailed
C1_Witness ==
  \E h, g \in Handlers :
    /\ hs[h].kind = "claimTask" /\ hs[g].kind = "claimTask"
    /\ hs[h].pc = "done" /\ hs[g].pc = "done"
    /\ hs[h].t = hs[g].t /\ hs[h].p # hs[g].p
    /\ hs[h].out = {"worldUpdate"} /\ hs[g].out = {"claimFailed"}
    /\ claims[hs[h].t] = hs[h].p
    /\ granted[hs[h].t] = {hs[h].p}

\* ---------------------------------------------------------------- claim C2
\* C2: in every reachable state each room has at most 2 entries in the
\* open-task list.
C2_TwoPerRoom ==
  \A r \in Rooms : RoomCounts(tasks)[r] <= 2

\* ---------------------------------------------------------------- claim C3
\* C3: after any sequence of spawns, expiries, correct and incorrect
\* resolutions and world resets, every room's vitals satisfy 40 <= hr <= 140,
\* 82 <= o2 <= 100, 35.0 <= temp <= 41.0 and 70 <= bp <= 190 (a room without a
\* stored record reads as the baseline).  A delta that would leave the band is
\* clamped to the bound, never rejected: a completed expiry, spawn or wrong
\* answer has written the previous vitals plus its delta, each field held to
\* its band, and a registration into an empty world has written the baseline
\* to every room.
C3_VitalsInBand ==
  /\ \A r \in Rooms : InBand(getVitals(r))
  /\ \A t \in TaskIds :
       (pre.who = "expiry" /\ pre.id = t /\ ex[t].pc = "done" /\ ex[t].raw # NoTask)
         => vitals[ex[t].room] = Banded(Before(ex[t].room), [hr |-> 4, o2 |-> -2, temp |-> 3, bp |-> -4])
  /\ \A c \in Chains :
       (pre.who = "spawn" /\ pre.id = c /\ Quiet /\ Len(tasks) = Len(pre.tasks) + 1)
         => LET room == tasks[Len(tasks)].room
            IN  vitals[room] = Banded(Before(room), [hr |-> 4, o2 |-> -2, temp |-> 3, bp |-> -4])
  /\ \A h \in Handlers :
       /\ ResolvedByHolder(h, FALSE)
            => LET room == getTask(pre.tasks, hs[h].t).room
               IN  vitals[room] = Banded(Before(room), [hr |-> 2, o2 |-> -1, temp |-> 1, bp |-> -2])
       /\ (/\ hs[h].kind = "registerPlayer" /\ hs[h].pc = "done"
           /\ pre.who = "handler" /\ pre.id = h
           /\ pre.active = {} /\ hs[h].out # {})
            => \A r \in Rooms : vitals[r] = [hr |-> 72, o2 |-> 98, temp |-> 368, bp |-> 125]

\* a task expired in a room whose o2 was at its lower bound: o2 stayed at 82
\* and the other fields took their delta
C3_Witness ==
  \E t \in TaskIds :
    /\ pre.who = "expiry" /\ pre.id = t /\ ex[t].pc = "done" /\ ex[t].raw # NoTask
    /\ pre.vitals[ex[t].room].o2 = 82
    /\ vitals[ex[t].room].o2 = 82
    /\ vitals[ex[t].room].hr = pre.vitals[ex[t].room].hr + 4
    /\ vitals[ex[t].room].bp = pre.vitals[ex[t].room].bp - 4

\* ---------------------------------------------------------------- claim C4
\* C4: resolution and expiry of the same task are mutually exclusive: no task
\* earns both the reward of a correct resolution and the expiry penalty.
C4_ResolveXorExpiry ==
  \A t \in TaskIds : ~(rewards[t] > 0 /\ penalties[t] > 0)

\* ---------------------------------------------------------------- claim C5
\* C5: expiry applies the tier's team penalty exactly once when the task is
\* still open as its timer fires, and applies nothing at all (no penalty, no
\* vitals degradation, no claim release, no broadcast) when the task had
\* already been removed; the penalty is never applied twice for one task.
C5_ExpiryOnce ==
  \A t \in TaskIds :
    /\ penalties[t] <= 1
    /\ (ex[t].pc = "done" /\ ex[t].raw # NoTask)
         => /\ penalties[t] = 1
            /\ ex[t].did = {"release", "penalty", "vitals", "worldUpdate"}
    /\ (ex[t].pc = "done" /\ ex[t].raw = NoTask)
         => /\ penalties[t] = 0
            /\ ex[t].did = {}
    /\ ex[t].pc \in {"none", "pending"} => penalties[t] = 0

\* a task was resolved correctly, then its timer fired and the callback did nothing
C5_Witness ==
  \E t \in TaskIds :
    /\ rewards[t] = 1
    /\ ex[t].pc = "done" /\ ex[t].raw = NoTask
    /\ penalties[t] = 0
    /\ teamScore - TwoCorrect.score
         \in {URGENCY("routine").scoreCorrect,
              URGENCY("routine").scoreCorrect + StreakBonus(TwoCorrect.streak + 1)}


\* ------------------------------------------------- claims C6 to C10 (SpecSeq)
\* C6: resolveTask by a registered participant who does not hold the claim on
\* the task (nobody holds it, or somebody else) emits resolveError to the
\* caller and nothing else, and changes nothing: scores, streaks, team score,
\* vitals, the task list, the claim records and the timers are as before.
C6_NonHolderRefused ==
  \A h \in Handlers :
    (Resolved(h) /\ pre.claims[hs[h].t] # hs[h].p)
      => /\ hs[h].out = {"resolveError"}
         /\ StoreAsBefore
         /\ ex = pre.ex

\* a participant tried to resolve a task somebody else holds
C6_Witness ==
  \E h \in Handlers :
    /\ Resolved(h)
    /\ pre.claims[hs[h].t] \notin {NoPlayer, hs[h].p}
    /\ hs[h].out = {"resolveError"}

\* C7: the claim holder resolves an open task with its correctAction: the
\* streak grows by 1; score and team score grow by the tier's scoreCorrect
\* (routine 10, urgent 15, critical 25) plus the bonus, min(20, 5 * (newStreak / 3))
\* when the new streak is a multiple of 3 and 0 otherwise; nobody else's
\* record changes.
C7_CorrectReward ==
  \A h \in Handlers :
    ResolvedByHolder(h, TRUE)
      => LET p == hs[h].p
             tier == getTask(pre.tasks, hs[h].t).urgency
             gain == CASE tier = "routine" -> 10 [] tier = "urgent" -> 15 [] tier = "critical" -> 25
             new == pre.players[p].streak + 1
             extra == IF new % 3 = 0 THEN Min(20, 5 * (new \div 3)) ELSE 0
         IN  /\ players[p].streak = new
             /\ players[p].score = pre.players[p].score + gain + extra
             /\ teamScore = pre.teamScore + gain + extra
             /\ hs[h].bonus = extra
             /\ \A q \in Players \ {p} : players[q] = pre.players[q]

\* a 15th correct answer in a row earned the capped bonus of 20 on top of an urgent task's 15
C7_Witness ==
  \E h \in Handlers :
    /\ ResolvedByHolder(h, TRUE)
    /\ players[hs[h].p].streak = 15
    /\ players[hs[h].p].score = pre.players[hs[h].p].score + 35
    /\ teamScore = pre.teamScore + 35

\* C8: the claim holder resolves an open task with another action than its
\* correctAction: score and team score change by the tier's scoreWrong
\* (routine -3, urgent -5, critical -8), the streak becomes 0 whatever it
\* was, and no bonus is granted.
C8_WrongPenalty ==
  \A h \in Handlers :
    ResolvedByHolder(h, FALSE)
      => LET p == hs[h].p
             tier == getTask(pre.tasks, hs[h].t).urgency
             loss == CASE tier = "routine" -> -3 [] tier = "urgent" -> -5 [] tier = "critical" -> -8
         IN  /\ players[p].streak = 0
             /\ players[p].score = pre.players[p].score + loss
             /\ teamScore = pre.teamScore + loss
             /\ hs[h].bonus = 0
             /\ \A q \in Players \ {p} : players[q] = pre.players[q]

\* a streak of 14 was lost on a wrong answer
C8_Witness ==
  \E h \in Handlers :
    /\ ResolvedByHolder(h, FALSE)
    /\ pre.players[hs[h].p].streak = 14
    /\ players[hs[h].p].streak = 0
    /\ teamScore < pre.teamScore

\* C9: after an incorrect resolution the task is still in the open list, with
\* claimedBy and claimedByName null, and no claim record exists for it; the
\* list is otherwise as it was and the expiry timers are unaffected.  A
\* claimTask on an open task without a claim record is granted: the caller
\* holds the claim, the task carries the caller's id and name, the world is
\* broadcast.
C9_WrongLeavesOpen ==
  \A h \in Handlers :
    /\ ResolvedByHolder(h, FALSE)
         => LET t == hs[h].t
            IN  /\ getTask(tasks, t) = Patched(getTask(pre.tasks, t), NoPlayer, NoName)
                /\ getTask(tasks, t).claimedBy = NoPlayer
                /\ getTask(tasks, t).claimedByName = NoName
                /\ claims[t] = NoPlayer
                /\ Len(tasks) = Len(pre.tasks)
                /\ \A i \in 1..Len(tasks) : tasks[i].id # t => tasks[i] = pre.tasks[i]
                /\ ex = pre.ex
    /\ (/\ hs[h].kind = "claimTask" /\ hs[h].pc = "done"
        /\ pre.who = "handler" /\ pre.id = h
        /\ pre.claims[hs[h].t] = NoPlayer
        /\ getTask(pre.tasks, hs[h].t) # NoTask)
         => /\ hs[h].out = {"worldUpdate"}
            /\ claims[hs[h].t] = hs[h].p
            /\ getTask(tasks, hs[h].t).claimedBy = hs[h].p
            /\ getTask(tasks, hs[h].t).claimedByName = NameOf(hs[h].p)

\* player 1 answered task 1 (routine) wrongly, and player 2 then claimed it
C9_Witness ==
  /\ players[1].score = -3
  /\ claims[1] = 2
  /\ getTask(tasks, 1).claimedBy = 2
  /\ ex[1].pc = "pending"
  /\ \E h \in Handlers :
       /\ hs[h].kind = "claimTask" /\ hs[h].pc = "done" /\ hs[h].p = 2 /\ hs[h].t = 1
       /\ hs[h].out = {"worldUpdate"}

\* C10: after a correct resolution by the claim holder the task is no longer
\* in the open list, no claim record exists for it, and the vitals of the
\* task's room are the previous ones plus the recovery vector of the task's
\* symptom, each field held to its band; the other rooms' vitals are as before.
C10_CorrectRemoves ==
  \A h \in Handlers :
    ResolvedByHolder(h, TRUE)
      => LET t == hs[h].t
             task == getTask(pre.tasks, t)
             was == Before(task.room)
             rec == Recovery(task.symptom)
         IN  /\ getTask(tasks, t) = NoTask
             /\ \A i \in 1..Len(tasks) : tasks[i].id # t
             /\ Len(tasks) = Len(pre.tasks) - 1
             /\ claims[t] = NoPlayer
             /\ vitals[task.room] = Banded(was, rec)
             /\ \A r \in Rooms \ {task.room} : vitals[r] = pre.vitals[r]

\* a fever was treated: the room's temperature fell by 1.5 degrees
C10_Witness ==
  \E h \in Handlers :
    /\ ResolvedByHolder(h, TRUE)
    /\ getTask(pre.tasks, hs[h].t).symptom = "fever"
    /\ getTask(tasks, hs[h].t) = NoTask
    /\ vitals[1].temp = pre.vitals[1].temp - 15
    /\ vitals[1].o2 = pre.vitals[1].o2 + 1

\* ----------------------------------------- claims C11 to C13, C16 (SpecSeq)
\* C11: claimTask by the participant who already holds the claim on the task
\* is a no-op: no claimFailed is emitted, the holder stays the same, and the
\* task list, the scores, the team score, the vitals and the timers are as
\* before, in every repetition of the request.
C11_ReclaimNoOp ==
  \A h \in Handlers :
    (Claimed(h) /\ pre.claims[hs[h].t] = hs[h].p)
      => /\ "claimFailed" \notin hs[h].out
         /\ claims[hs[h].t] = hs[h].p
         /\ StoreAsBefore
         /\ ex = pre.ex

\* the holder of a task sent claimTask for it once more, as the last event of
\* the run, and heard nothing
C11_Witness ==
  \E h \in Handlers :
    /\ Claimed(h) /\ pre.claims[hs[h].t] = hs[h].p
    /\ getTask(tasks, hs[h].t).claimedBy = hs[h].p
    /\ hs[h].out = {}
    /\ left.requests = 0

\* C12: claimTask on a task whose claim another participant holds is denied:
\* the caller gets claimFailed and nothing else, the claim stays with its
\* holder, and the task list (claimedBy and claimedByName included) is as before.
C12_ClaimDenied ==
  \A h \in Handlers :
    (Claimed(h) /\ pre.claims[hs[h].t] \notin {NoPlayer, hs[h].p})
      => /\ hs[h].out = {"claimFailed"}
         /\ claims = pre.claims
         /\ tasks = pre.tasks

\* player 2 asked for a task that player 1 holds and shows as claimant
C12_Witness ==
  \E h \in Handlers :
    /\ Claimed(h) /\ hs[h].p = 2
    /\ pre.claims[hs[h].t] = 1
    /\ claims[hs[h].t] = 1
    /\ getTask(tasks, hs[h].t).claimedBy = 1
    /\ getTask(tasks, hs[h].t).claimedByName = NameOf(1)
    /\ hs[h].out = {"claimFailed"}

\* C13: releaseClaim by somebody who does not hold the claim changes nothing
\* and broadcasts nothing; by the holder it removes the claim record and sets
\* the task's claimedBy and claimedByName to null, the rest of the list as before.
C13_ReleaseByHolderOnly ==
  \A h \in Handlers :
    Released(h)
      => LET t == hs[h].t
         IN  IF pre.claims[t] # hs[h].p
             THEN /\ hs[h].out = {}
                  /\ StoreAsBefore
             ELSE /\ claims = [pre.claims EXCEPT ![t] = NoPlayer]
                  /\ Len(tasks) = Len(pre.tasks)
                  /\ \A i \in 1..Len(tasks) :
                       tasks[i] = IF pre.tasks[i].id = t
                                  THEN [pre.tasks[i] EXCEPT !.claimedBy = NoPlayer,
                                                            !.claimedByName = NoName]
                                  ELSE pre.tasks[i]

\* player 2 sent releaseClaim for a task that player 1 holds: player 1 still holds it
C13_Witness ==
  \E h \in Handlers :
    /\ Released(h) /\ hs[h].p = 2
    /\ pre.claims[hs[h].t] = 1
    /\ claims[hs[h].t] = 1
    /\ getTask(tasks, hs[h].t).claimedBy = 1
    /\ hs[h].out = {}

\* C16: resolveTask by the holder of a claim record whose task is not in the
\* open list is ignored in silence: nothing is emitted (no resolveError, no
\* playerUpdate), and scores, streaks, the team score, the vitals, the list,
\* the claim records and the timers are as before.  A claimTask for an id
\* that is not in the list leaves the list as it is: no task is created.
C16_GoneTaskIgnored ==
  \A h \in Handlers :
    /\ (Resolved(h) /\ pre.claims[hs[h].t] = hs[h].p /\ getTask(pre.tasks, hs[h].t) = NoTask)
         => /\ hs[h].out = {}
            /\ StoreAsBefore
            /\ ex = pre.ex
    /\ (Claimed(h) /\ getTask(pre.tasks, hs[h].t) = NoTask)
         => tasks = pre.tasks

\* a task expired, a player claimed its id all the same and then tried to
\* resolve it: the claim record is still there and nothing was said
C16_Witness ==
  \E h \in Handlers :
    /\ Resolved(h)
    /\ pre.claims[hs[h].t] = hs[h].p
    /\ getTask(pre.tasks, hs[h].t) = NoTask
    /\ ex[hs[h].t].pc = "done"
    /\ claims[hs[h].t] = hs[h].p
    /\ hs[h].out = {}

\* ------------------------------- claims C15 (Spec), C17 and C18 (SpecRace)
\* C15: an open task expires when its timer fires, whatever happens to its
\* claim meanwhile: once handleTaskExpiry has found the task and issued its
\* removal the task is no longer in the open list, and the tier's team
\* penalty is applied once.
C15_ExpiresRegardless ==
  \A t \in TaskIds :
    /\ (ex[t].raw # NoTask /\ ex[t].pc \in {"release", "team", "vget", "vset", "bcast", "done"})
         => getTask(tasks, t) = NoTask
    /\ (ex[t].raw # NoTask /\ ex[t].pc = "done") => penalties[t] = 1

\* C17: a claimTask, releaseClaim or resolveTask handler whose updateTask found
\* its task before something else removed it still ends normally: no handler
\* ends on a failed command.
C17_NoFailedWrite ==
  \A h \in Handlers : "error" \notin hs[h].out

\* C18: what is done to one task leaves the entries of the others alone: the
\* open list never holds two entries with the same id, and a task whose
\* expiry timer is still pending (nothing has removed it) is in the list.
C18_NoContention ==
  /\ \A i, j \in 1..Len(tasks) : tasks[i].id = tasks[j].id => i = j
  /\ \A t \in TaskIds : ex[t].pc = "pending" => getTask(tasks, t) # NoTask

\* ------------------------------------------------------ claim C14 (SpecLive)
\* C14: a claim that nobody releases or resolves goes away by itself, its
\* key's time being up: every claim record is eventually gone.  A claimTask on
\* a task without a claim record, such as one whose claim has run out, is
\* granted: the caller holds the claim and is not refused.
C14_ClaimSelfReleases ==
  /\ \A t \in TaskIds : (claims[t] # NoPlayer) ~> (claims[t] = NoPlayer)
  /\ [](\A h \in Handlers :
          (Claimed(h) /\ pre.claims[hs[h].t] = NoPlayer)
            => /\ claims[hs[h].t] = hs[h].p
               /\ granted[hs[h].t] = {hs[h].p}
               /\ "claimFailed" \notin hs[h].out)

\* player 1's claim ran out (the task still showed player 1 as claimant) and
\* player 2's claimTask for the same task was granted
C14_Witness ==
  \E h \in Handlers :
    /\ Claimed(h) /\ hs[h].p = 2
    /\ pre.claims[hs[h].t] = NoPlayer
    /\ getTask(pre.tasks, hs[h].t).claimedBy = 1
    /\ claims[hs[h].t] = 2
    /\ getTask(tasks, hs[h].t).claimedBy = 2
    /\ hs[h].out = {"worldUpdate"}

\* ------------------------------------------------------- claim C19 (SpecGen)
\* C19: a spawn attempt that finds at least max(4, 2 * active participants)
\* tasks open aborts: when it has ended the open list, the vitals and the
\* expiry timers are as before, and it has added no task, written no vitals,
\* set no timer and broadcast nothing.
C19_CeilingAborts ==
  \A c \in Chains :
    (/\ pre.who = "spawn" /\ pre.id = c /\ sp[c].pc = "timer"
     /\ Len(pre.tasks) >= (IF 2 * Cardinality(pre.active) > 4
                           THEN 2 * Cardinality(pre.active) ELSE 4))
      => /\ tasks = pre.tasks
         /\ vitals = pre.vitals
         /\ ex = pre.ex
         /\ sp[c].did = {}

\* a tick found 4 tasks open for 2 participants, room 3 having none: it
\* ended without a task for room 3
C19_Witness ==
  \E c \in Chains :
    /\ pre.who = "spawn" /\ pre.id = c /\ sp[c].pc = "timer"
    /\ Len(pre.tasks) = 4 /\ Cardinality(pre.active) = 2
    /\ RoomCounts(pre.tasks)[3] = 0
    /\ tasks = pre.tasks
    /\ sp[c].did = {}

\* ------------------------------------------------------ claim C20 (SpecStop)
\* nobody is in the game and no registration or disconnect is in progress:
\* the last participant's disconnect has flushed the world and nobody has
\* begun to register since
WorldStopped ==
  /\ active = {}
  /\ \A h \in Handlers : hs[h].kind \in {"registerPlayer", "disconnect"} => Settled(h)

\* C20: from the flush of the last participant's disconnect until a
\* participant registers again the generator adds no task and changes no
\* vitals: the open list stays empty and no room has stored vitals, also when
\* a spawn attempt was in progress as the participant left.
C20_StoppedWhenEmpty ==
  WorldStopped => /\ tasks = <<>>
                  /\ \A r \in Rooms : vitals[r] = NoVitals

\* ------------------------------------------------------ claim C21 (SpecJoin)
\* handler h is the registration of a participant into a world without
\* active participants (it answered the caller alone and did not broadcast),
\* it has ended, and the participant is still connected and registered
RegisteredFirst(h) ==
  /\ hs[h].kind = "registerPlayer" /\ hs[h].pc = "done"
  /\ hs[h].out = {"worldUpdate to caller", "leaderboardUpdate"}
  /\ hs[h].p \in conn
  /\ players[hs[h].p].name # NoName

\* C21: a participant who registered into a world without active
\* participants has the generator running for as long as they stay
\* registered: a spawn timer is pending or a spawn attempt is in progress,
\* also when the registration overlapped another handler.
C21_RestartedByRegistration ==
  \A h \in Handlers :
    RegisteredFirst(h) => \E c \in Chains : sp[c].pc # "off"

\* ------------------------------------------------------ claim C22 (SpecFail)
\* C22: a store failure at any point of a spawn tick, the participant count
\* read before the spawn attempt included, is caught and the next tick is
\* scheduled: while participants remain the chain goes on, a spawn timer
\* pending or a spawn attempt in progress.
C22_ChainSurvivesErrors ==
  active # {} => \E c \in Chains : sp[c].pc # "off"

\* ----------------------------------------------------- claim C23 (SpecReset)
\* C23: the team score changes only by the delta of a resolution (the tier's
\* 10, 15 or 25 plus a bonus of 0, 5, 10, 15 or 20; the tier's -3, -5 or -8),
\* by an expiry penalty (-3, -5 or -10) or by a world flush, which sets it to
\* 0 together with emptying the task list, the active set and the vitals; and
\* a flush never resets a team score other than 0 while somebody else than
\* the participant whose registration or disconnect flushes is in the world:
\* connected and registered, their registration completed.
C23_TeamScoreFrame ==
  [][/\ teamScore' # teamScore
          => \/ teamScore' - teamScore \in {10, 15, 25, 30, 35, 40, 45, 20, -3, -5, -8, -10}
             \/ /\ teamScore' = 0 /\ tasks' = <<>> /\ active' = {}
                /\ \A r \in Rooms : vitals'[r] = NoVitals
     /\ \A h \in Handlers :
          (/\ hs[h].pc \in {"reg_flush", "dc_flush"} /\ hs'[h].pc # hs[h].pc
           /\ teamScore # 0)
            => \A p \in Players \ {hs[h].p} :
                 \/ p \notin conn
                 \/ players[p].name = NoName
                 \/ \E g \in Handlers :
                      hs[g].kind = "registerPlayer" /\ hs[g].p = p /\ ~Settled(g)]_vars

\* ----------------------------------------------------- claim C24 (SpecLeave)
\* C24: when the disconnect handler of a participant has ended, the
\* participant's player record is deleted and they are not in the active set;
\* the leaderboard has an entry with their name and the score they left with
\* if that score was above 0, and no entry of theirs otherwise.
C24_DisconnectCleansUp ==
  \A h \in Handlers :
    (hs[h].kind = "disconnect" /\ hs[h].pc = "done")
      => /\ players[hs[h].p] = [name |-> "", score |-> 0, streak |-> 0]
         /\ hs[h].p \notin active
         /\ IF hs[h].newScore > 0
            THEN \E i \in 1..Len(leaderboard) :
                   leaderboard[i] = [name |-> NameOf(hs[h].p), score |-> hs[h].newScore]
            ELSE \A i \in 1..Len(leaderboard) : leaderboard[i].name # NameOf(hs[h].p)

\* ----------------------------------------------------- claim C25 (SpecBoard)
\* how often score v occurs among the scores of seq
Occurrences(seq, v) == Cardinality({i \in 1..Len(seq) : seq[i] = v})

\* C25: after any sequence of insertScore calls the leaderboard holds at most
\* 10 entries, and their scores are the 10 highest scores inserted so far,
\* each as often as it occurs among them (all the scores inserted when there
\* were fewer than 10).
C25_TopTen ==
  LET kept == [i \in 1..Len(leaderboard) |-> leaderboard[i].score]
      best == [i \in 1..(IF Len(inserted) < 10 THEN Len(inserted) ELSE 10) |-> inserted[i]]
  IN  /\ Len(leaderboard) <= 10
      /\ Len(kept) = Len(best)
      /\ \A i \in 1..Len(best) : Occurrences(kept, best[i]) = Occurrences(best, best[i])

\* twelve scores were inserted, the two lowest of them below the tenth
\* highest: ten entries are kept and none of them has the lowest score
C25_Witness ==
  /\ Len(inserted) = 12
  /\ inserted[11] < inserted[10]
  /\ Len(leaderboard) = 10
  /\ \A i \in 1..Len(leaderboard) : leaderboard[i].score > inserted[12]

\* ------------------------------------------------------ claim C26 (SpecRace)
\* C26: every mutating operation ends with a broadcast.  A handler that ends
\* after its claim was granted, after it released the claim it held or after
\* it applied a resolution has sent worldUpdate; so has an expiry callback
\* that ends after it removed its task, and a spawn tick that ends after it
\* added a task.
C26_MutationBroadcast ==
  [][/\ \A h \in Handlers :
          (hs[h].pc \in {"upd_read", "upd_write", "bcast"} /\ hs'[h].pc = "done")
            => "worldUpdate" \in hs'[h].out
     /\ \A t \in TaskIds :
          (ex[t].pc \in {"release", "team", "vget", "vset", "bcast"} /\ ex'[t].pc = "done")
            => "worldUpdate" \in ex'[t].did
     /\ \A c \in Chains :
          (sp[c].pc \in {"vget", "vset", "bcast"} /\ sp'[c].pc = "timer")
            => "worldUpdate" \in sp'[c].did]_vars

\* ---------------------------------------------------------- claim C27 (Spec)
\* C27: a resolveTask handler that found its task and applied the verdict
\* sends playerUpdate before it ends, and when playerUpdate is sent its score
\* is the participant's stored score, its streak the stored streak, and its
\* bonus the bonus of this resolution (0 unless the new streak is a multiple
\* of 3), also when the participant has another resolution in progress.
C27_PlayerUpdate ==
  [][\A h \in Handlers :
       /\ (/\ hs[h].kind = "resolveTask"
           /\ hs[h].pc \notin {"idle", "done", "holds", "gettask"}
           /\ hs'[h].pc = "done")
            => "playerUpdate" \in hs'[h].out
       /\ ("playerUpdate" \notin hs[h].out /\ "playerUpdate" \in hs'[h].out)
            => /\ hs'[h].newScore + hs'[h].bonus = players'[hs'[h].p].score
               /\ hs'[h].newStreak = players'[hs'[h].p].streak
               /\ hs'[h].bonus = (IF hs'[h].correct /\ hs'[h].newStreak % 3 = 0
                                  THEN Min(20, 5 * (hs'[h].newStreak \div 3)) ELSE 0)]_vars

\* ----------------------------------------------------- claim C28 (SpecWorld)
\* C28: registerPlayer with a name that is empty after trimming is ignored:
\* when the handler has ended no player record was created, the active set,
\* the tasks, the team score, the vitals, the claims, the timers and the
\* spawner are as before, and nothing was emitted to the caller.
C28_BlankNameIgnored ==
  \A h \in Handlers :
    (/\ hs[h].kind = "registerPlayer" /\ hs[h].pc = "done"
     /\ pre.who = "handler" /\ pre.id = h
     /\ hs[h].name = "")
      => /\ hs[h].out = {}
         /\ players = pre.players
         /\ active = pre.active
         /\ tasks = pre.tasks /\ teamScore = pre.teamScore /\ vitals = pre.vitals
         /\ claims = pre.claims /\ ex = pre.ex
         /\ sp = pre.sp /\ spawnerTimeout = pre.spawnerTimeout

\* socket 2, not registered, sent a blank name into a game in progress: it
\* has no player record, is not in the active set and heard nothing
C28_Witness ==
  \E h \in Handlers :
    /\ hs[h].kind = "registerPlayer" /\ hs[h].pc = "done" /\ hs[h].p = 2
    /\ pre.who = "handler" /\ pre.id = h
    /\ hs[h].name = ""
    /\ pre.active = {1}
    /\ players[2].name = ""
    /\ active = {1}
    /\ hs[h].out = {}

\* ------------------------------------------------------ claim C29 (SpecPick)
\* the vitals spawnTask gave to pickSymptom for the task chain c built
PickedOn(c) == getVitals(sp[c].room)

\* C29: for every vitals record pickSymptom returns a triggered symptom whose
\* precondition holds for those vitals whenever at least one such
\* precondition holds, and a fallback symptom (pain or bleeding) only when
\* none holds; the spawned task's correctAction is the chosen symptom's.
C29_SymptomFitsVitals ==
  /\ \A c \in Chains :
       sp[c].pc \in {"add", "vget"} =>
         /\ (\E k \in SymptomKeys : Priority(k) > 0 /\ Trigger(k, PickedOn(c)))
              => /\ Priority(sp[c].task.symptom) > 0
                 /\ Trigger(sp[c].task.symptom, PickedOn(c))
         /\ (~ \E k \in SymptomKeys : Priority(k) > 0 /\ Trigger(k, PickedOn(c)))
              => sp[c].task.symptom \in {"pain", "bleeding"}
         /\ sp[c].task.correctAction = CorrectAction(sp[c].task.symptom)
  /\ \A i \in 1..Len(tasks) : tasks[i].correctAction = CorrectAction(tasks[i].symptom)

\* with a pulse of 101 and a pressure of 99 the task stored is a tachycardia
\* to be met with a beta blocker
C29_Witness ==
  /\ Len(tasks) = 1
  /\ getVitals(tasks[1].room).hr = 101 /\ getVitals(tasks[1].room).bp = 99
  /\ tasks[1].symptom = "tachycardia"
  /\ tasks[1].correctAction = "betablocker"

\* ------------------------------------------------------ claim C30 (SpecPick)
\* C30: pickUrgency splits the rolls 0..99 by the weights: critical for
\* exactly 10 of them, urgent for exactly 30, routine for exactly 60; the tier
\* of a spawned task is the one of its roll, whatever its room, the room's
\* vitals and its symptom are.
C30_UrgencyByWeight ==
  /\ Cardinality({roll \in AllRolls : pickUrgency(roll) = "critical"}) = 10
  /\ Cardinality({roll \in AllRolls : pickUrgency(roll) = "urgent"}) = 30
  /\ Cardinality({roll \in AllRolls : pickUrgency(roll) = "routine"}) = 60
  /\ \A c \in Chains :
       sp[c].pc \in {"add", "vget"} =>
         sp[c].task.urgency =
           (IF sp[c].roll < 10 THEN "critical"
            ELSE IF sp[c].roll < 40 THEN "urgent" ELSE "routine")

\* the roll 39 gave an urgent task of a hypoxia in room 3
C30_Witness ==
  \E c \in Chains :
    /\ sp[c].pc = "vget"
    /\ sp[c].roll = 39
    /\ sp[c].task.urgency = "urgent"
    /\ sp[c].task.symptom = "hypoxia"
    /\ sp[c].room = 3

\* ------------------------------------------------------- claim C31 (SpecGen)
\* the spawn attempt of chain c ran from the store held in pre, by itself,
\* and has ended; it found the list below the ceiling and a room with fewer
\* than 2 open tasks
Spawned(c) ==
  /\ pre.who = "spawn" /\ pre.id = c /\ sp[c].pc = "timer"
  /\ Len(pre.tasks) < (IF 2 * Cardinality(pre.active) > 4
                       THEN 2 * Cardinality(pre.active) ELSE 4)
  /\ \E r \in Rooms : Cardinality({i \in 1..Len(pre.tasks) : pre.tasks[i].room = r}) < 2

\* C31: a spawn attempt that does not abort adds exactly one task, with an
\* id no task has or had, claimed by nobody, in a room that held fewer than 2
\* open tasks when the attempt read the list; that room's vitals are degraded
\* by (hr +4, o2 -2, temp +0.3, bp -4) within the bands, the other rooms'
\* vitals are as before, and exactly one expiry timer, of the task's tier, is
\* pending for the task.
C31_SpawnAddsOne ==
  \A c \in Chains :
    Spawned(c) =>
      /\ Len(tasks) = Len(pre.tasks) + 1
      /\ SubSeq(tasks, 1, Len(pre.tasks)) = pre.tasks
      /\ LET task == tasks[Len(tasks)]
         IN  /\ \A i \in 1..Len(pre.tasks) : pre.tasks[i].id # task.id
             /\ pre.ex[task.id].pc = "none"
             /\ task.claimedBy = NoPlayer
             /\ Cardinality({i \in 1..Len(pre.tasks) : pre.tasks[i].room = task.room}) < 2
             /\ vitals[task.room] =
                  Banded(Before(task.room), [hr |-> 4, o2 |-> -2, temp |-> 3, bp |-> -4])
             /\ \A r \in Rooms \ {task.room} : vitals[r] = pre.vitals[r]
             /\ ex[task.id].pc = "pending" /\ ex[task.id].urgency = task.urgency
             /\ \A t \in TaskIds \ {task.id} : ex[t] = pre.ex[t]

\* three tasks were open, two of them in room 1: the attempt added the task
\* with id 5 to another room and its timer is pending
C31_Witness ==
  \E c \in Chains :
    /\ Spawned(c)
    /\ Len(pre.tasks) = 3
    /\ Cardinality({i \in 1..Len(pre.tasks) : pre.tasks[i].room = 1}) = 2
    /\ Len(tasks) = 4 /\ tasks[4].id = 5 /\ tasks[4].room # 1
    /\ ex[5].pc = "pending"

\* ------------------------------------------------------ claim C32 (SpecStop)
\* C32: one timer handles all spawning: at any time at most one spawn chain
\* is alive (its timer pending or its tick in progress), whatever the
\* registrations, disconnects and resets were.
C32_OneChain == Cardinality({c \in Chains : sp[c].pc # "off"}) <= 1

\* ------------------------------------------------------ claim C33 (SpecJoin)
\* C33: every participant whose registerPlayer has completed and whose socket
\* has not disconnected is a member of the active set and has a player
\* record.
C33_RegisteredIsActive ==
  \A h \in Handlers :
    (/\ hs[h].kind = "registerPlayer" /\ hs[h].pc = "done"
     /\ hs[h].name # ""
     /\ hs[h].p \in conn)
      => /\ hs[h].p \in active
         /\ players[hs[h].p].name # ""

\* ---------------------------------------------------------- claim C34 (Spec)
\* C34: a live claim is never removed by an action of a participant other
\* than its holder while the task is open: a step of a releaseClaim, a
\* resolveTask or a disconnect handler that deletes the claim record of an
\* open task is a step of the handler of the record's holder.
C34_OnlyHolderDeletes ==
  [][\A t \in TaskIds :
       (/\ claims[t] # 0 /\ claims'[t] = 0
        /\ \E i \in 1..Len(tasks) : tasks[i].id = t)
         => \A h \in Handlers :
              (/\ hs'[h] # hs[h]
               /\ hs[h].kind \in {"releaseClaim", "resolveTask", "disconnect"})
                => hs[h].p = claims[t]]_vars

\* ---------------------------------------------------------- claim C35 (Spec)
\* C35: the reward for resolving a task correctly is granted at most once per
\* task: of all resolveTask requests for one task id, by whichever
\* participants and however they overlap, at most one increases a score.
C35_RewardedOnce == \A t \in TaskIds : rewards[t] <= 1

\* ------------------------------------------------------- claim C36 (SpecSeq)
\* C36: whenever no claimTask, releaseClaim, resolveTask or disconnect
\* handler for a task is in progress, an open task whose claimedBy names a
\* participant has a live claim record held by that participant; a task does
\* not stay marked as claimed after its claim has lapsed by timeout.
C36_MarkedMeansHeld ==
  \A i \in 1..Len(tasks) :
    (/\ tasks[i].claimedBy # 0
     /\ \A h \in Handlers :
          hs[h].pc \notin {"idle", "done"} => hs[h].t # tasks[i].id /\ hs[h].kind # "disconnect")
      => claims[tasks[i].id] = tasks[i].claimedBy

\* ---------------------------------------------------------- claim C37 (Spec)
\* C37: no task outlives its expiry: once handleTaskExpiry has completed for
\* a task the task is not in the open list, and the team penalty of a task
\* is applied only if the task was taken out of the list.
C37_NoTaskOutlivesExpiry ==
  /\ \A t \in TaskIds : ex[t].pc = "done" => \A i \in 1..Len(tasks) : tasks[i].id # t
  /\ \A t \in TaskIds : penalties[t] > 0 => \A i \in 1..Len(tasks) : tasks[i].id # t

\* ------------------------------------------------------ claim C38 (SpecQuit)
\* C38: disconnect releases everything the participant held: once the
\* disconnect handler of a participant has completed, no claim record is held
\* by them and no open task names them in claimedBy.
C38_DisconnectReleasesAll ==
  \A h \in Handlers :
    (hs[h].kind = "disconnect" /\ hs[h].pc = "done")
      => /\ \A t \in TaskIds : claims[t] # hs[h].p
         /\ \A i \in 1..Len(tasks) : tasks[i].claimedBy # hs[h].p

\* ------------------------------------------------------ claim C39 (SpecStop)
\* C39: when a participant registers while the active set is empty, then at
\* the step that completes the registration (the 3-second timer it started
\* has not fired yet) the open list is empty, the team score is 0, every room
\* holds the baseline vitals (hr 72, o2 98, temp 36.8, bp 125) and the
\* registrant is in the active set with score 0 and streak 0; a step of a
\* registration into a world with active participants leaves the tasks, the
\* team score, the vitals and the other participants' records as they were.
C39_FreshWorldForFirst ==
  [][\A h \in Handlers :
       (hs[h].kind = "registerPlayer" /\ hs'[h] # hs[h])
         => IF hs[h].first
            THEN (/\ hs[h].pc = "reg_build" /\ hs'[h].pc = "done"
                  /\ \E c \in Chains : sp[c].pc = "first")
                   => /\ tasks' = <<>>
                      /\ teamScore' = 0
                      /\ \A r \in Rooms :
                           vitals'[r] = [hr |-> 72, o2 |-> 98, temp |-> 368, bp |-> 125]
                      /\ hs[h].p \in active'
                      /\ players'[hs[h].p].score = 0 /\ players'[hs[h].p].streak = 0
            ELSE /\ tasks' = tasks
                 /\ teamScore' = teamScore
                 /\ vitals' = vitals
                 /\ \A q \in Players \ {hs[h].p} : players'[q] = players[q]]_vars

====
